---- MODULE Spec2Model ----
(***************************************************************************)
(* Model of mozc's NumberUtil (src/src/base/number_util.cc): the forward   *)
(* converters from Arabic digit strings to Japanese numeral forms and the  *)
(* reverse pipeline NormalizeNumbers (tokenizer + grammar reducer).        *)
(*                                                                         *)
(* Text is a sequence of characters; a character is a TLA+ string.  ASCII  *)
(* characters stand for themselves, every other glyph has a romanised      *)
(* name (the glyph is given in the comment of the table that holds it).    *)
(*                                                                         *)
(* uint64_t values are 8 little-endian bytes (TLC integers are 32 bits     *)
(* wide); a sequence of more than 8 bytes is an unbounded natural.         *)
(***************************************************************************)
EXTENDS Integers, Sequences, FiniteSets, TLC

VARIABLES
    op,             \* the entry point that ran last ("idle" before any call)
    input,          \* the input_num / input argument of the call
    trim,           \* the trim_leading_zeros argument
    ret,            \* the bool the call returned
    output,         \* the caller's std::vector<NumberString>
    kanji_output,   \* *kanji_output of NormalizeNumbers
    arabic_output,  \* *arabic_output of NormalizeNumbers
    suffix,         \* *suffix of NormalizeNumbersWithSuffix
    numbers,        \* the tokens the tokenizer collected (local |numbers|)
    reduced,        \* the number the reducer returned (local |n|)
    wrapped,        \* TRUE iff an exact intermediate result was above 2^64-1
    oob,            \* TRUE iff the call read past the end of a string_view
    src,            \* the NumberString whose text a round trip normalizes
    dest,           \* *value of SafeStrToInt16 / SafeStrToUInt16
    ignored,        \* TRUE iff the reducer forced its iterator to the end
    calls,          \* the number of calls the caller has made
    suffix_allowed, \* the allow_suffix argument of NormalizeNumbersInternal
    cursor,         \* the iterator |begin| of the loop that is running
    prev_base,      \* last_base of InterpretNumbersInJapaneseWay
    block,          \* the block value ReduceNumberLessThan10000 wrote last
    iterations      \* the iterations the running loop has made

\* The locals of a call that runs step by step.
locals == <<suffix_allowed, cursor, prev_base, block, iterations>>

vars == <<op, input, trim, ret, output, kanji_output, arabic_output, suffix,
          numbers, reduced, wrapped, oob, src, dest, ignored, calls, locals>>

(***************************************************************************)
(* Natural numbers as little-endian byte sequences                         *)
(***************************************************************************)

\* A result slot of the tables below that holds nullptr.
Null == "nullptr"

RECURSIVE ToBytes(_, _)
ToBytes(n, k) ==
    IF k = 0 THEN <<>> ELSE <<n % 256>> \o ToBytes(n \div 256, k - 1)

\* The uint64_t of a small natural n (n < 2^31).
U64(n) == ToBytes(n, 8)

\* std::numeric_limits<uint64_t>::max()
U64Max == [i \in 1..8 |-> 255]

\* Carry propagation: the bytes of sum_i raw[i] * 256^(i-1) + c * 256^Len(raw).
RECURSIVE Carry(_, _)
Carry(raw, c) ==
    IF raw = <<>>
    THEN IF c = 0 THEN <<>> ELSE <<c % 256>> \o Carry(<<>>, c \div 256)
    ELSE LET s == Head(raw) + c
         IN  <<s % 256>> \o Carry(Tail(raw), s \div 256)

Byte(a, i) == IF i <= Len(a) THEN a[i] ELSE 0

\* TRUE iff the natural a does not fit 64 bits.
Exceeds64(a) == \E i \in 9..Len(a) : a[i] # 0

\* a mod 2^64, as a uint64_t.
Wrap64(a) == [i \in 1..8 |-> Byte(a, i)]

\* The unbounded sum and product of two naturals.
NatAdd(a, b) ==
    LET n == IF Len(a) > Len(b) THEN Len(a) ELSE Len(b)
    IN  Carry([i \in 1..n |-> Byte(a, i) + Byte(b, i)], 0)

RECURSIVE Conv(_, _, _, _)
Conv(a, b, k, i) ==
    IF i > k \/ i > Len(a) THEN 0
    ELSE (IF k + 1 - i <= Len(b) THEN a[i] * b[k + 1 - i] ELSE 0)
         + Conv(a, b, k, i + 1)

NatMul(a, b) ==
    Carry([k \in 1..(Len(a) + Len(b)) |-> Conv(a, b, k, 1)], 0)

\* Comparison of naturals of any length, from the most significant byte.
RECURSIVE LessFrom(_, _, _)
LessFrom(a, b, i) ==
    IF i = 0 THEN FALSE
    ELSE IF Byte(a, i) # Byte(b, i) THEN Byte(a, i) < Byte(b, i)
    ELSE LessFrom(a, b, i - 1)

NatLess(a, b) == LessFrom(a, b, IF Len(a) > Len(b) THEN Len(a) ELSE Len(b))
NatEq(a, b) == ~NatLess(a, b) /\ ~NatLess(b, a)
NatLeq(a, b) == ~NatLess(b, a)

\* Quotient and remainder of a natural by a small divisor d (d <= 2^16).
RECURSIVE DivFrom(_, _, _, _)
DivFrom(a, d, i, r) ==
    IF i = 0 THEN [q |-> <<>>, r |-> r]
    ELSE LET cur  == r * 256 + a[i]
             rest == DivFrom(a, d, i - 1, cur % d)
         IN  [q |-> Append(rest.q, cur \div d), r |-> rest.r]

DivSmall(a, d) == DivFrom(a, d, Len(a), 0)

IsZero(a) == \A i \in 1..Len(a) : a[i] = 0

(***************************************************************************)
(* Characters, strings and the glyph tables                                *)
(***************************************************************************)

\* A const char* table entry is a text; nullptr is the text <<Null>>.
NullStr == <<Null>>

\* What a read outside a table stands for in a result.
OutOfTable == <<"out-of-table">>

\* table[i] for a 0-based index i; OutOfTable marks an index that is not in
\* the table.
At(table, i) ==
    IF i >= 0 /\ i < Len(table) THEN table[i + 1] ELSE OutOfTable

\* "0" .. "9"
kNumHalfWidthDigits ==
    << <<"0">>, <<"1">>, <<"2">>, <<"3">>, <<"4">>, <<"5">>, <<"6">>, <<"7">>,
       <<"8">>, <<"9">>, NullStr >>

\* U+3007 (k0), then the kanji for one (k1) ... nine (k9)
kNumKanjiDigits ==
    << <<"k0">>, <<"k1">>, <<"k2">>, <<"k3">>, <<"k4">>, <<"k5">>, <<"k6">>,
       <<"k7">>, <<"k8">>, <<"k9">>, NullStr >>

\* nullptr, the daiji one (o1), two (o2), three (o3), then the kanji four..nine
kNumKanjiOldDigits ==
    << NullStr, <<"o1">>, <<"o2">>, <<"o3">>, <<"k4">>, <<"k5">>, <<"k6">>,
       <<"k7">>, <<"k8">>, <<"k9">> >>

\* U+FF10 (w0) .. U+FF19 (w9)
kNumFullWidthDigits ==
    << <<"w0">>, <<"w1">>, <<"w2">>, <<"w3">>, <<"w4">>, <<"w5">>, <<"w6">>,
       <<"w7">>, <<"w8">>, <<"w9">>, NullStr >>

\* nullptr, "", ten (juu), hundred (hyaku), thousand (sen)
kNumKanjiRanks == << NullStr, <<>>, <<"juu">>, <<"hyaku">>, <<"sen">> >>
\* "", 10^4 (man), 10^8 (oku), 10^12 (chou), 10^16 (kei)
kNumKanjiBiggerRanks == << <<>>, <<"man">>, <<"oku">>, <<"chou">>, <<"kei">> >>
\* nullptr, "", daiji ten (ojuu), hundred (hyaku), daiji thousand (osen)
kNumKanjiOldRanks == << NullStr, <<>>, <<"ojuu">>, <<"hyaku">>, <<"osen">> >>
\* "", daiji 10^4 (oman), oku, chou, kei
kNumKanjiBiggerOldRanks ==
    << <<>>, <<"oman">>, <<"oku">>, <<"chou">>, <<"kei">> >>

kAsciiZero == "0"
kAsciiOne == "1"

\* isdigit(c)
isdigit(c) == \E i \in 0..9 : At(kNumHalfWidthDigits, i) = <<c>>

\* c - kAsciiZero for an ASCII digit c.
DigitOf(c) == CHOOSE i \in 0..9 : At(kNumHalfWidthDigits, i) = <<c>>

\* std::string(n, c)
RECURSIVE Repeat(_, _)
Repeat(n, c) == IF n <= 0 THEN <<>> ELSE <<c>> \o Repeat(n - 1, c)

IsDecimalInteger(str) ==
    /\ str # <<>>
    /\ \A i \in 1..Len(str) : isdigit(str[i])

\* A valid decimal number has at most one decimal point; "" is accepted.
IsDecimalNumber(str) ==
    /\ \A i \in 1..Len(str) : str[i] = "." \/ isdigit(str[i])
    /\ Cardinality({i \in 1..Len(str) : str[i] = "."}) < 2

\* NumberString(value, description, style)
NumberString(value, description, style) ==
    [value |-> value, description |-> description, style |-> style]

(***************************************************************************)
(* absl::SimpleAtoi(str, &n) for uint64_t and absl::StrFormat("%u", n)     *)
(***************************************************************************)

\* Parses the digits of str from position i on, value so far v; w is the
\* exact value of v * 10 + digit.
RECURSIVE AtoiFrom(_, _, _)
RECURSIVE AtoiNext(_, _, _)
AtoiFrom(str, i, v) ==
    IF i > Len(str) THEN [ok |-> TRUE, n |-> v]
    ELSE IF ~isdigit(str[i]) THEN [ok |-> FALSE, n |-> v]
    ELSE AtoiNext(str, i,
                  NatAdd(NatMul(v, U64(10)), U64(DigitOf(str[i]))))

AtoiNext(str, i, w) ==
    IF Exceeds64(w) THEN [ok |-> FALSE, n |-> U64Max]
    ELSE AtoiFrom(str, i + 1, Wrap64(w))

SimpleAtoi(str) ==
    IF str = <<>> THEN [ok |-> FALSE, n |-> U64(0)]
    ELSE AtoiFrom(str, 1, U64(0))

\* The digits of n in the given radix, most significant first, "0" for 0.
kHexDigits ==
    << "0", "1", "2", "3", "4", "5", "6", "7", "8", "9",
       "a", "b", "c", "d", "e", "f" >>

RECURSIVE RadixDigits(_, _)
RadixDigits(n, radix) ==
    LET qr == DivSmall(n, radix)
    IN  (IF IsZero(qr.q) THEN <<>> ELSE RadixDigits(qr.q, radix))
        \o <<At(kHexDigits, qr.r)>>

\* absl::StrFormat("%u", n)
StrFormatU(n) == RadixDigits(n, 10)
\* absl::StrFormat("0x%x", n)
StrFormatHex(n) == <<"0", "x">> \o RadixDigits(n, 16)
\* absl::StrFormat("0%o", n)
StrFormatOct(n) == <<"0">> \o RadixDigits(n, 8)

(***************************************************************************)
(* NumberUtil::ArabicToKanji                                               *)
(***************************************************************************)

\* NumberStringVariation: digits, description, separator, point,
\* numbers_size, style.  The descriptions are romanised.
kKanjiVariations ==
    << [digits |-> kNumHalfWidthDigits, description |-> "suuji",
        separator |-> NullStr, point |-> NullStr, numbers_size |-> 10,
        style |-> "NUMBER_ARABIC_AND_KANJI_HALFWIDTH"],
       [digits |-> kNumFullWidthDigits, description |-> "suuji",
        separator |-> NullStr, point |-> NullStr, numbers_size |-> 10,
        style |-> "NUMBER_ARABIC_AND_KANJI_FULLWIDTH"],
       [digits |-> kNumKanjiDigits, description |-> "kansuuji",
        separator |-> NullStr, point |-> NullStr, numbers_size |-> 10,
        style |-> "NUMBER_KANJI"],
       [digits |-> kNumKanjiOldDigits, description |-> "daiji",
        separator |-> NullStr, point |-> NullStr, numbers_size |-> 10,
        style |-> "NUMBER_OLD_KANJI"] >>

\* daiji two followed by daiji ten, and the single glyph for twenty (nijuu)
kOldTwoTen == <<"o2", "ojuu">>
kOldTwenty == <<"nijuu">>

\* The daiji zero (rei)
kNumZero == <<"rei">>
kDigitsInBigRank == 4

\* std::string::find(pat, from): the first 0-based position >= from at
\* which pat occurs in text, -1 (npos) when there is none.
RECURSIVE Find(_, _, _)
Find(text, pat, from) ==
    IF from + Len(pat) > Len(text) THEN -1
    ELSE IF SubSeq(text, from + 1, from + Len(pat)) = pat THEN from
    ELSE Find(text, pat, from + 1)

\* std::string::replace(index, len, with)
Replace(text, index, len, with) ==
    SubSeq(text, 1, index) \o with \o SubSeq(text, index + len + 1, Len(text))

\* A variant of the replacement that stops after the first occurrence.
ReplaceOldTwoTenOnce(result2, index) ==
    Replace(result2, index, Len(kOldTwoTen), kOldTwenty)

\* The do-while loop of lines 303-306.
RECURSIVE ReplaceOldTwoTen(_, _)
ReplaceOldTwoTen(result2, index) ==
    LET replaced == Replace(result2, index, Len(kOldTwoTen), kOldTwenty)
        next     == Find(replaced, kOldTwoTen, index)
    IN  IF next # -1 THEN ReplaceOldTwoTen(replaced, next) ELSE replaced

\* A variant of the style test that knows the half-width style only.
IsArabicAndKanjiHalfWidthOnly(style) ==
    style = "NUMBER_ARABIC_AND_KANJI_HALFWIDTH"

\* style == NUMBER_ARABIC_AND_KANJI_HALFWIDTH ||
\* style == NUMBER_ARABIC_AND_KANJI_FULLWIDTH
IsArabicAndKanji(style) ==
    \/ style = "NUMBER_ARABIC_AND_KANJI_HALFWIDTH"
    \/ style = "NUMBER_ARABIC_AND_KANJI_FULLWIDTH"

\* The number of leading '0' characters of str (the loop of lines 207-208).
RECURSIVE CountLeadingZeroChars(_, _)
CountLeadingZeroChars(str, i) ==
    IF i < Len(str) /\ str[i + 1] = kAsciiZero
    THEN CountLeadingZeroChars(str, i + 1) ELSE i

\* ranked_numbers: the 4-digit pieces, least significant first.
RECURSIVE RankedNumbers(_, _)
RankedNumbers(str, i) ==
    IF i < 0 THEN <<>>
    ELSE <<SubSeq(str, i + 1, i + kDigitsInBigRank)>>
         \o RankedNumbers(str, i - kDigitsInBigRank)

\* SegmentResult that spells out the digit "one" at every position in
\* every style (without the test of lines 282-283).
RECURSIVE SegmentResultSpellsOne(_, _, _, _, _, _)
SegmentResultSpellsOne(segment, style, digits, ranks, i, leading) ==
    IF i >= Len(segment) THEN <<>>
    ELSE IF leading /\ segment[i + 1] = kAsciiZero
    THEN SegmentResultSpellsOne(segment, style, digits, ranks, i + 1, TRUE)
    ELSE IF IsArabicAndKanji(style)
    THEN At(digits, DigitOf(segment[i + 1]))
         \o SegmentResultSpellsOne(segment, style, digits, ranks, i + 1,
                                   FALSE)
    ELSE IF segment[i + 1] = kAsciiZero
    THEN SegmentResultSpellsOne(segment, style, digits, ranks, i + 1, FALSE)
    ELSE At(digits, DigitOf(segment[i + 1]))
         \o At(ranks, kDigitsInBigRank - i)
         \o SegmentResultSpellsOne(segment, style, digits, ranks, i + 1,
                                   FALSE)

\* The inner loop over one segment (lines 268-288), from position i on.
RECURSIVE SegmentResult(_, _, _, _, _, _)
SegmentResult(segment, style, digits, ranks, i, leading) ==
    IF i >= Len(segment) THEN <<>>
    ELSE IF leading /\ segment[i + 1] = kAsciiZero
    THEN SegmentResult(segment, style, digits, ranks, i + 1, TRUE)
    ELSE IF IsArabicAndKanji(style)
    THEN At(digits, DigitOf(segment[i + 1]))
         \o SegmentResult(segment, style, digits, ranks, i + 1, FALSE)
    ELSE IF segment[i + 1] = kAsciiZero
    THEN SegmentResult(segment, style, digits, ranks, i + 1, FALSE)
    ELSE (IF \/ style = "NUMBER_OLD_KANJI"
             \/ i = kDigitsInBigRank - 1
             \/ segment[i + 1] # kAsciiOne
          THEN At(digits, DigitOf(segment[i + 1])) ELSE <<>>)
         \o At(ranks, kDigitsInBigRank - i)
         \o SegmentResult(segment, style, digits, ranks, i + 1, FALSE)

\* The loop over the segments (lines 264-292), from |rank| down to 0.
RECURSIVE MergeSegments(_, _, _, _, _, _)
MergeSegments(ranked_numbers, style, digits, ranks, bigger_ranks, rank) ==
    IF rank < 0 THEN <<>>
    ELSE LET segment_result ==
                 SegmentResult(At(ranked_numbers, rank), style, digits,
                               ranks, 0, TRUE)
         IN  (IF segment_result # <<>>
              THEN segment_result \o At(bigger_ranks, rank) ELSE <<>>)
             \o MergeSegments(ranked_numbers, style, digits, ranks,
                              bigger_ranks, rank - 1)

\* A variant of the test for the single glyph that looks at the last
\* 4-digit group only.
IsSingleGroupInLastRank(padded, group) ==
    SubSeq(padded, Len(padded) - kDigitsInBigRank + 1, Len(padded)) = group

\* input == "0010" and input == "1000" (lines 311 and 314), |padded| being
\* the zero-filled |input|.
IsSingleGroup(padded, group) == padded = group

\* The results one variation pushes (the body of the loop of line 238).
VariationResults(variation, padded, ranked_numbers) ==
    LET style  == variation.style
        old    == style = "NUMBER_OLD_KANJI"
        result == MergeSegments(ranked_numbers, style, variation.digits,
                      IF old THEN kNumKanjiOldRanks ELSE kNumKanjiRanks,
                      IF old THEN kNumKanjiBiggerOldRanks
                             ELSE kNumKanjiBiggerRanks,
                      Len(ranked_numbers) - 1)
        index  == Find(result, kOldTwoTen, 0)
    IN  IF Len(ranked_numbers) = 1 /\ IsArabicAndKanji(style) THEN <<>>
        ELSE <<NumberString(result, variation.description, style)>>
             \o (IF old /\ index # -1
                 THEN <<NumberString(ReplaceOldTwoTen(result, index),
                                     variation.description, style)>>
                 ELSE <<>>)
             \o (IF old /\ IsSingleGroup(padded, <<"0", "0", "1", "0">>)
                 THEN <<NumberString(<<"ojuu">>, variation.description,
                                     style)>>
                 ELSE <<>>)
             \o (IF old /\ IsSingleGroup(padded, <<"1", "0", "0", "0">>)
                 THEN <<NumberString(<<"osen">>, variation.description,
                                     style)>>
                 ELSE <<>>)

RECURSIVE AllVariations(_, _, _)
AllVariations(variation_index, padded, ranked_numbers) ==
    IF variation_index >= Len(kKanjiVariations) THEN <<>>
    ELSE VariationResults(At(kKanjiVariations, variation_index), padded,
                          ranked_numbers)
         \o AllVariations(variation_index + 1, padded, ranked_numbers)

\* A variant of the all-zeros test that holds only within the supported
\* magnitude, as if the rank test of line 218 came first.
IsAllZerosWithinRanks(input_num) ==
    /\ CountLeadingZeroChars(input_num, 0) = Len(input_num)
    /\ Len(input_num) <= Len(kNumKanjiBiggerRanks) * kDigitsInBigRank

\* i == input_num.size() after the loop of lines 207-208.
IsAllZeros(input_num) ==
    CountLeadingZeroChars(input_num, 0) = Len(input_num)

\* A variant of the rank test that also rejects 20 digits.
NeedsHigherRanksFromTwenty(input_num) ==
    Len(kNumKanjiBiggerRanks) * kDigitsInBigRank <= Len(input_num)

\* A variant of the rank test that lets every length through.
NeedsHigherRanksNever(input_num) == FALSE

\* std::size(kNumKanjiBiggerRanks) * kDigitsInBigRank < input_num.size()
NeedsHigherRanks(input_num) ==
    Len(kNumKanjiBiggerRanks) * kDigitsInBigRank < Len(input_num)

\* bool ArabicToKanji(input_num, output): the value returned and the
\* vector after the call, out being the vector before it.
ArabicToKanji(input_num, out) ==
    IF ~IsDecimalInteger(input_num) THEN [ret |-> FALSE, output |-> out]
    ELSE IF IsAllZeros(input_num)
    THEN [ret |-> TRUE,
          output |-> Append(out, NumberString(kNumZero, "daiji",
                                              "NUMBER_OLD_KANJI"))]
    ELSE IF NeedsHigherRanks(input_num)
    THEN [ret |-> FALSE, output |-> out]
    ELSE LET filled_zero_num ==
                 (kDigitsInBigRank - (Len(input_num) % kDigitsInBigRank))
                     % kDigitsInBigRank
             padded == Repeat(filled_zero_num, kAsciiZero) \o input_num
             ranked_numbers ==
                 RankedNumbers(padded, Len(padded) - kDigitsInBigRank)
         IN  [ret |-> TRUE,
              output |-> out \o AllVariations(0, padded, ranked_numbers)]

(***************************************************************************)
(* Overflow-checked arithmetic (lines 533-553).  Every result carries      *)
(* |wrapped|: TRUE iff the exact result does not fit 64 bits.              *)
(***************************************************************************)

\* max - arg1: no borrow ever happens.
MaxMinus(arg1) == [i \in 1..8 |-> 255 - arg1[i]]

\* The result of a checked operation whose exact result is |exact|.
Checked(ok, exact) ==
    [ok |-> ok, output |-> Wrap64(exact), wrapped |-> Exceeds64(exact)]

\* *output = arg1 + arg2; false iff arg2 > max - arg1.
AddAndCheckOverflow(arg1, arg2) ==
    Checked(~NatLess(MaxMinus(arg1), arg2), NatAdd(arg1, arg2))

\* arg1 != 0 && arg2 > max / arg1, which for arg1 != 0 says exactly that
\* the exact product |exact| is above max.
MultiplyOverflows(arg1, exact) == ~IsZero(arg1) /\ Exceeds64(exact)

\* *output = arg1 * arg2; false iff arg1 != 0 && arg2 > max / arg1.
MultiplyChecked(arg1, exact) ==
    Checked(~MultiplyOverflows(arg1, exact), exact)

MultiplyAndCheckOverflow(arg1, arg2) ==
    MultiplyChecked(arg1, NatMul(arg1, arg2))

(***************************************************************************)
(* The grammar reducer (lines 615-829).  |nums| is the token vector; an    *)
(* iterator is a 0-based position, numbers.end() is Len(nums).  A result   *)
(* is the bool returned (ok), the iterator and the number written, with     *)
(* |wrapped| and with |ignored|: TRUE iff line 703 forced the iterator to   *)
(* the end ("Force to ignore the rest of the sequence"), and |overflowed|:  *)
(* TRUE iff an unchecked *num += n of lines 761-773 went above 2^64-1.      *)
(***************************************************************************)

Lt(a, n) == NatLess(a, U64(n))
Is(a, n) == a = U64(n)

Result(ok, begin, num, w) ==
    [ok |-> ok, begin |-> begin, num |-> num, wrapped |-> w,
     ignored |-> FALSE, overflowed |-> FALSE]

\* The loop of ReduceLeadingNumbersAsBase10System (lines 619-628) with
\* *output = out: one iteration is the multiplication, then the addition.
RECURSIVE Base10Loop(_, _, _, _)
RECURSIVE Base10Multiplied(_, _, _, _)
RECURSIVE Base10Added(_, _, _, _)
Base10Loop(nums, begin, out, w) ==
    IF begin >= Len(nums) \/ ~Lt(At(nums, begin), 10)
    THEN Result(TRUE, begin, out, w)
    ELSE Base10Multiplied(nums, begin, w,
                          MultiplyAndCheckOverflow(out, U64(10)))

Base10Multiplied(nums, begin, w, m) ==
    IF ~m.ok THEN Result(FALSE, begin, m.output, TRUE)
    ELSE Base10Added(nums, begin, w \/ m.wrapped,
                     AddAndCheckOverflow(m.output, At(nums, begin)))

Base10Added(nums, begin, w, a) ==
    IF ~a.ok THEN Result(FALSE, begin, a.output, TRUE)
    ELSE Base10Loop(nums, begin + 1, a.output, w \/ a.wrapped)

ReduceLeadingNumbersAsBase10System(nums, begin) ==
    Base10Loop(nums, begin, U64(0), FALSE)

\* return (success && begin == numbers.end());
WholeReduced(nums, r) ==
    [ok |-> r.ok /\ r.begin = Len(nums), output |-> r.num,
     wrapped |-> r.wrapped, ignored |-> FALSE]

InterpretNumbersAsBase10System(nums) ==
    WholeReduced(nums, ReduceLeadingNumbersAsBase10System(nums, 0))

ReduceOnesDigit(nums, begin, num) ==
    IF begin = Len(nums) \/ ~Lt(At(nums, begin), 10)
    THEN Result(FALSE, begin, num, FALSE)
    ELSE Result(TRUE, begin + 1, At(nums, begin), FALSE)

\* while (*begin != end && **begin == 0) ++*begin;
RECURSIVE SkipLeadingZeros(_, _)
SkipLeadingZeros(nums, begin) ==
    IF begin # Len(nums) /\ IsZero(At(nums, begin))
    THEN SkipLeadingZeros(nums, begin + 1) ELSE begin

\* ReduceDigitRun without the bound *num >= expected_base * 10.
ReduceDigitRunUnbounded(nums, expected_base, r) ==
    IF \/ ~r.ok
       \/ (r.begin # Len(nums) /\ Lt(At(nums, r.begin), 10000))
    THEN [Result(FALSE, Len(nums), r.num, r.wrapped)
              EXCEPT !.ignored = TRUE]
    ELSE Result(TRUE, r.begin, r.num, r.wrapped)

\* Lines 700-705: r is what ReduceLeadingNumbersAsBase10System returned.
ReduceDigitRun(nums, expected_base, r) ==
    IF \/ ~r.ok
       \/ ~NatLess(r.num, NatMul(U64(expected_base), U64(10)))
       \/ (r.begin # Len(nums) /\ Lt(At(nums, r.begin), 10000))
    THEN [Result(FALSE, Len(nums), r.num, r.wrapped)
              EXCEPT !.ignored = TRUE]
    ELSE Result(TRUE, r.begin, r.num, r.wrapped)

\* *num = leading_number * expected_base, the exact product being p.
ReduceProduct(begin, p) == Result(TRUE, begin + 2, Wrap64(p), Exceeds64(p))

\* ReduceDigitThenRank without the rule on a leading 1 (line 710).
ReduceDigitThenRankAnyLeading(nums, begin, num, expected_base) ==
    IF Len(nums) - begin < 2 THEN Result(FALSE, begin, num, FALSE)
    ELSE IF Lt(At(nums, begin + 1), 10)
    THEN ReduceDigitRun(nums, expected_base,
                        ReduceLeadingNumbersAsBase10System(nums, begin))
    ELSE IF ~Is(At(nums, begin + 1), expected_base)
    THEN Result(FALSE, begin, num, FALSE)
    ELSE ReduceProduct(begin, NatMul(At(nums, begin), U64(expected_base)))

\* Lines 690-716: the leading number is less than 10.
ReduceDigitThenRank(nums, begin, num, expected_base) ==
    IF Len(nums) - begin < 2 THEN Result(FALSE, begin, num, FALSE)
    ELSE IF Lt(At(nums, begin + 1), 10)
    THEN ReduceDigitRun(nums, expected_base,
                        ReduceLeadingNumbersAsBase10System(nums, begin))
    ELSE IF \/ ~Is(At(nums, begin + 1), expected_base)
            \/ (Is(At(nums, begin), 1) /\ expected_base # 1000)
    THEN Result(FALSE, begin, num, FALSE)
    ELSE ReduceProduct(begin, NatMul(At(nums, begin), U64(expected_base)))

\* ReduceBareRank without the special case of 20.
ReduceBareRankNoTwenty(nums, begin, num, expected_base) ==
    IF Is(At(nums, begin), expected_base)
    THEN Result(TRUE, begin + 1, At(nums, begin), FALSE)
    ELSE Result(FALSE, begin, num, FALSE)

\* Lines 720-726: the leading number is a rank.
ReduceBareRank(nums, begin, num, expected_base) ==
    IF \/ Is(At(nums, begin), expected_base)
       \/ (expected_base = 10 /\ Is(At(nums, begin), 20))
    THEN Result(TRUE, begin + 1, At(nums, begin), FALSE)
    ELSE Result(FALSE, begin, num, FALSE)

\* ReduceDigitsHelper once the leading zeros are skipped (lines 683-727).
ReduceDigitsFrom(nums, begin, num, expected_base) ==
    IF begin = Len(nums) THEN Result(FALSE, begin, num, FALSE)
    ELSE IF Lt(At(nums, begin), 10)
    THEN ReduceDigitThenRank(nums, begin, num, expected_base)
    ELSE ReduceBareRank(nums, begin, num, expected_base)

ReduceDigitsHelper(nums, begin, num, expected_base) ==
    ReduceDigitsFrom(nums, SkipLeadingZeros(nums, begin), num, expected_base)

ReduceTensDigit(nums, begin, num) == ReduceDigitsHelper(nums, begin, num, 10)
ReduceHundredsDigit(nums, begin, num) ==
    ReduceDigitsHelper(nums, begin, num, 100)
ReduceThousandsDigit(nums, begin, num) ==
    ReduceDigitsHelper(nums, begin, num, 1000)

\* The locals of ReduceNumberLessThan10000: begin, n, *num, success.
BlockState(begin, n, num, success, w) ==
    [begin |-> begin, n |-> n, num |-> num, success |-> success,
     wrapped |-> w, ignored |-> FALSE, overflowed |-> FALSE]

\* *num += n, the exact sum being |sum|.
BlockAdded(begin, n, sum, w) ==
    BlockState(begin, n, Wrap64(sum), TRUE, w \/ Exceeds64(sum))

\* if (Reduce...(begin, end, &n)) { *num += n; success = true; }
\* with r what the sub-match returned from the state st.
BlockStep(st, r) ==
    IF r.ok
    THEN [BlockAdded(r.begin, r.num, NatAdd(st.num, r.num),
                     st.wrapped \/ r.wrapped)
              EXCEPT !.ignored = st.ignored,
                     !.overflowed = st.overflowed
                                    \/ Exceeds64(NatAdd(st.num, r.num))]
    ELSE [BlockState(r.begin, r.num, st.num, st.success,
                     st.wrapped \/ r.wrapped)
              EXCEPT !.ignored = st.ignored \/ r.ignored,
                     !.overflowed = st.overflowed]

ThousandsStep(nums, st) ==
    BlockStep(st, ReduceThousandsDigit(nums, st.begin, st.n))
HundredsStep(nums, st) ==
    BlockStep(st, ReduceHundredsDigit(nums, st.begin, st.n))
TensStep(nums, st) == BlockStep(st, ReduceTensDigit(nums, st.begin, st.n))
OnesStep(nums, st) == BlockStep(st, ReduceOnesDigit(nums, st.begin, st.n))

\* return success && (*begin == end || **begin >= 10000);
BlockResult(nums, st) ==
    [Result(/\ st.success
            /\ (st.begin = Len(nums) \/ ~Lt(At(nums, st.begin), 10000)),
            st.begin, st.num, st.wrapped)
         EXCEPT !.ignored = st.ignored, !.overflowed = st.overflowed]

ReduceNumberLessThan10000(nums, begin) ==
    BlockResult(nums,
        OnesStep(nums,
            TensStep(nums,
                HundredsStep(nums,
                    ThousandsStep(nums,
                        BlockState(begin, U64(0), U64(0), FALSE, FALSE))))))

\* A result of InterpretNumbersInJapaneseWay.
Interpreted(ok, out, w) ==
    [ok |-> ok, output |-> out, wrapped |-> w, ignored |-> FALSE]

\* return AddAndCheckOverflow(*output, coef, output);
JapaneseWayLast(w, sum) == Interpreted(sum.ok, sum.output, w \/ sum.wrapped)

\* The locals after one iteration of the do-while loop of lines 791-809:
\* done iff the function returned in it or the loop condition ended it, r
\* what the function has returned or would return now, b the block of the
\* iteration, begin and last_base the iterator and the base it leaves.
Iterated(done, r, b, begin, last_base) ==
    [done |-> done, ok |-> r.ok, output |-> r.output, wrapped |-> r.wrapped,
     ignored |-> r.ignored, begin |-> begin, last_base |-> last_base,
     coef |-> b.num, block_ok |-> b.ok, block_end |-> b.begin]

\* A variant of the increment that leaves the iterator where it is.
NotIncremented(begin) == begin

\* begin++ in last_base = *begin++ (line 808)
Incremented(begin) == begin + 1

\* Lines 808-811: *output += delta gave |sum|.
JapaneseWayAdded(nums, b, last_base, w, sum) ==
    IF ~sum.ok
    THEN Iterated(TRUE, Interpreted(FALSE, sum.output, TRUE), b, b.begin,
                  last_base)
    ELSE Iterated(Incremented(b.begin) = Len(nums),
                  Interpreted(TRUE, sum.output, w \/ sum.wrapped), b,
                  Incremented(b.begin), At(nums, b.begin))

\* Lines 803-807: coef * *begin gave |delta|.
JapaneseWayMultiplied(nums, b, out, last_base, w, delta) ==
    IF ~delta.ok
    THEN Iterated(TRUE, Interpreted(FALSE, out, TRUE), b, b.begin, last_base)
    ELSE JapaneseWayAdded(nums, b, last_base, w \/ delta.wrapped,
                          AddAndCheckOverflow(out, delta.output))

\* Lines 793-802: ReduceNumberLessThan10000 gave the block b.
JapaneseWayBlock(nums, out, last_base, w, b) ==
    IF ~b.ok
    THEN Iterated(TRUE, [Interpreted(FALSE, out, w \/ b.wrapped)
                             EXCEPT !.ignored = b.ignored],
                  b, b.begin, last_base)
    ELSE IF b.begin = Len(nums)
    THEN Iterated(TRUE,
                  [JapaneseWayLast(w \/ b.wrapped,
                                   AddAndCheckOverflow(out, b.num))
                       EXCEPT !.ignored = b.ignored],
                  b, b.begin, last_base)
    ELSE IF ~NatLess(At(nums, b.begin), last_base)
    THEN Iterated(TRUE, Interpreted(FALSE, out, w \/ b.wrapped), b, b.begin,
                  last_base)
    ELSE JapaneseWayMultiplied(
             nums, b, out, last_base, w \/ b.wrapped,
             MultiplyAndCheckOverflow(b.num, At(nums, b.begin)))

\* One iteration of the do-while loop of InterpretNumbersInJapaneseWay
\* (lines 791-809): the block, then delta = coef * *begin, then
\* *output += delta.
JapaneseWayIteration(nums, begin, out, last_base, w) ==
    JapaneseWayBlock(nums, out, last_base, w,
                     ReduceNumberLessThan10000(nums, begin))

\* What the function returns once the loop is over.
JapaneseWayReturned(it) ==
    [Interpreted(it.ok, it.output, it.wrapped) EXCEPT !.ignored = it.ignored]

\* The loop: iterations until one is the last.
RECURSIVE JapaneseWayLoop(_, _, _, _, _)
RECURSIVE JapaneseWayContinued(_, _)
JapaneseWayLoop(nums, begin, out, last_base, w) ==
    JapaneseWayContinued(nums,
                         JapaneseWayIteration(nums, begin, out, last_base, w))

JapaneseWayContinued(nums, it) ==
    IF it.done THEN JapaneseWayReturned(it)
    ELSE JapaneseWayLoop(nums, it.begin, it.output, it.last_base, it.wrapped)

InterpretNumbersInJapaneseWay(nums) ==
    JapaneseWayLoop(nums, 0, U64(0), U64Max, FALSE)

\* A variant of the mode test that takes 10 for a digit (*itr_max > 10).
MaxIsRankAboveTen(nums) == \E i \in 1..Len(nums) : ~Lt(nums[i], 11)

\* TRUE iff some token is >= 10 (*itr_max >= 10).
MaxIsRank(nums) == \E i \in 1..Len(nums) : ~Lt(nums[i], 10)

NormalizeNumbersHelper(nums) ==
    IF nums = <<>> THEN Interpreted(FALSE, U64(0), FALSE)
    ELSE IF ~MaxIsRank(nums) THEN InterpretNumbersAsBase10System(nums)
    ELSE InterpretNumbersInJapaneseWay(nums)

(***************************************************************************)
(* The tokenizer and NormalizeNumbersInternal (lines 832-935)              *)
(***************************************************************************)

\* japanese_util_rule::kanjinumber_to_arabicnumber_table: the glyphs that
\* have a numeral value, each with the decimal string it is replaced by.
kanjinumber_to_arabicnumber_table ==
    [k0 |-> <<"0">>, k1 |-> <<"1">>, k2 |-> <<"2">>, k3 |-> <<"3">>,
     k4 |-> <<"4">>, k5 |-> <<"5">>, k6 |-> <<"6">>, k7 |-> <<"7">>,
     k8 |-> <<"8">>, k9 |-> <<"9">>,
     w0 |-> <<"0">>, w1 |-> <<"1">>, w2 |-> <<"2">>, w3 |-> <<"3">>,
     w4 |-> <<"4">>, w5 |-> <<"5">>, w6 |-> <<"6">>, w7 |-> <<"7">>,
     w8 |-> <<"8">>, w9 |-> <<"9">>,
     rei |-> <<"0">>, o1 |-> <<"1">>, o2 |-> <<"2">>, o3 |-> <<"3">>,
     juu |-> <<"1", "0">>, ojuu |-> <<"1", "0">>, nijuu |-> <<"2", "0">>,
     hyaku |-> <<"1", "0", "0">>,
     sen |-> <<"1", "0", "0", "0">>, osen |-> <<"1", "0", "0", "0">>,
     man |-> <<"1", "0", "0", "0", "0">>,
     oman |-> <<"1", "0", "0", "0", "0">>,
     oku |-> <<"1">> \o Repeat(8, "0"),
     chou |-> <<"1">> \o Repeat(12, "0"),
     kei |-> <<"1">> \o Repeat(16, "0")]

\* NumberUtil::KanjiNumberToArabicNumber on one character: a character of
\* the table is replaced, any other character is copied.
KanjiNumberToArabicNumber(kanji_char) ==
    IF kanji_char \in DOMAIN kanjinumber_to_arabicnumber_table
    THEN kanjinumber_to_arabicnumber_table[kanji_char]
    ELSE <<kanji_char>>

\* 0x0030 <= wchar <= 0x0039
IsAsciiDigitChar(c) == isdigit(c)
\* 0xFF10 <= wchar <= 0xFF19, and wchar - 0xFF10
IsFullWidthDigitChar(c) ==
    \E i \in 0..9 : At(kNumFullWidthDigits, i) = <<c>>
FullWidthDigitOf(c) == CHOOSE i \in 0..9 : At(kNumFullWidthDigits, i) = <<c>>

\* A variant of the echo that rewrites the ASCII digits only.
EchoOfAsciiOnly(c) ==
    IF IsAsciiDigitChar(c) THEN At(kNumKanjiDigits, DigitOf(c)) ELSE <<c>>

\* The character appended to *kanji_output for an accepted character.
EchoOf(c) ==
    IF IsAsciiDigitChar(c) THEN At(kNumKanjiDigits, DigitOf(c))
    ELSE IF IsFullWidthDigitChar(c)
    THEN At(kNumKanjiDigits, FullWidthDigitOf(c))
    ELSE <<c>>

Tokens(begin, kanji, nums) ==
    [begin |-> begin, kanji_output |-> kanji, numbers |-> nums]

\* The while loop of lines 848-869 from position |begin| on: the position
\* it stops at, the echo and the tokens; n is what SimpleAtoi returned for
\* the character at |begin|.
RECURSIVE Tokenize(_, _, _, _)
RECURSIVE TokenizeParsed(_, _, _, _, _)
Tokenize(text, begin, kanji, nums) ==
    IF begin >= Len(text) THEN Tokens(begin, kanji, nums)
    ELSE TokenizeParsed(
             text, begin, kanji, nums,
             SimpleAtoi(KanjiNumberToArabicNumber(At(text, begin))))

TokenizeParsed(text, begin, kanji, nums, n) ==
    IF ~n.ok THEN Tokens(begin, kanji, nums)
    ELSE Tokenize(text, begin + 1, kanji \o EchoOf(At(text, begin)),
                  Append(nums, n.n))

\* The number of leading zero tokens (the loop of lines 892-896).
RECURSIVE CountLeadingZeros(_, _)
CountLeadingZeros(nums, num_zeros) ==
    IF num_zeros < Len(nums) /\ IsZero(At(nums, num_zeros))
    THEN CountLeadingZeros(nums, num_zeros + 1) ELSE num_zeros

\* AdjustNumZeros without the decrement of line 898.
AdjustNumZerosKept(nums, num_zeros) == num_zeros

\* if (num_zeros == numbers.size()) --num_zeros;
AdjustNumZeros(nums, num_zeros) ==
    IF num_zeros = Len(nums) THEN num_zeros - 1 ELSE num_zeros

\* LeadingZeroText as if trim_leading_zeros were always set.
LeadingZeroTextTrimmed(nums, trim_leading_zeros) == <<>>

\* The zeros appended to *arabic_output before the number (lines 888-901).
LeadingZeroText(nums, trim_leading_zeros) ==
    IF trim_leading_zeros THEN <<>>
    ELSE Repeat(AdjustNumZeros(nums, CountLeadingZeros(nums, 0)), kAsciiZero)

\* What NormalizeNumbersInternal leaves behind.
Outcome(r, kanji, arabic, sfx, nums, n, w) ==
    [ret |-> r, kanji_output |-> kanji, arabic_output |-> arabic,
     suffix |-> sfx, numbers |-> nums, value |-> n, wrapped |-> w,
     ignored |-> FALSE]

\* Lines 882-904: n is what NormalizeNumbersHelper returned.
NormalizeReduced(t, trim_leading_zeros, sfx, n) ==
    IF ~n.ok
    THEN [Outcome(FALSE, t.kanji_output, <<>>, sfx, t.numbers, U64(0),
                  n.wrapped)
              EXCEPT !.ignored = n.ignored]
    ELSE [Outcome(TRUE, t.kanji_output,
                  LeadingZeroText(t.numbers, trim_leading_zeros)
                      \o StrFormatU(n.output),
                  sfx, t.numbers, n.output, n.wrapped)
              EXCEPT !.ignored = n.ignored]

\* Lines 870-886: t is what the tokenizer loop left.
NormalizeTokenized(text, trim_leading_zeros, allow_suffix, suffix0, t) ==
    IF t.begin < Len(text) /\ ~allow_suffix
    THEN Outcome(FALSE, t.kanji_output, <<>>, suffix0, t.numbers, U64(0),
                 FALSE)
    ELSE IF t.numbers = <<>>
    THEN Outcome(FALSE, t.kanji_output, <<>>,
                 IF t.begin < Len(text)
                 THEN SubSeq(text, t.begin + 1, Len(text)) ELSE suffix0,
                 t.numbers, U64(0), FALSE)
    ELSE NormalizeReduced(t, trim_leading_zeros,
                          IF t.begin < Len(text)
                          THEN SubSeq(text, t.begin + 1, Len(text))
                          ELSE suffix0,
                          NormalizeNumbersHelper(t.numbers))

\* NormalizeNumbersInternal: the value returned and the outputs after the
\* call; suffix0 is *suffix before it.
NormalizeNumbersInternal(text, trim_leading_zeros, allow_suffix, suffix0) ==
    NormalizeTokenized(text, trim_leading_zeros, allow_suffix, suffix0,
                       Tokenize(text, 0, <<>>, <<>>))

NormalizeNumbers(text, trim_leading_zeros) ==
    NormalizeNumbersInternal(text, trim_leading_zeros, FALSE, <<>>)

NormalizeNumbersWithSuffix(text, trim_leading_zeros, suffix0) ==
    NormalizeNumbersInternal(text, trim_leading_zeros, TRUE, suffix0)

(***************************************************************************)
(* ArabicToSeparatedArabic and ArabicToWideArabic                          *)
(***************************************************************************)

\* "," and "." ; the full-width comma (w,) and full stop (w.)
kNumDigitsVariations ==
    << [digits |-> kNumHalfWidthDigits, description |-> "suuji",
        separator |-> <<",">>, point |-> <<".">>, numbers_size |-> 10,
        style |-> "NUMBER_SEPARATED_ARABIC_HALFWIDTH"],
       [digits |-> kNumFullWidthDigits, description |-> "suuji",
        separator |-> <<"w,">>, point |-> <<"w.">>, numbers_size |-> 10,
        style |-> "NUMBER_SEPARATED_ARABIC_FULLWIDTH"] >>

\* input_num.find('.'), input_num.size() when there is none.
PointPos(input_num) ==
    LET at == Find(input_num, <<".">>, 0)
    IN  IF at = -1 THEN Len(input_num) ELSE at

IntegerPart(input_num) == SubSeq(input_num, 1, PointPos(input_num))
FractionPart(input_num) ==
    SubSeq(input_num, PointPos(input_num) + 1, Len(input_num))

\* SeparatedInteger with the groups of three counted from the left.
RECURSIVE SeparatedIntegerFromLeft(_, _, _)
SeparatedIntegerFromLeft(integer, variation, j) ==
    IF j >= Len(integer) THEN <<>>
    ELSE (IF j # 0 /\ j % 3 = 0 THEN variation.separator ELSE <<>>)
         \o At(variation.digits, DigitOf(At(integer, j)))
         \o SeparatedIntegerFromLeft(integer, variation, j + 1)

\* The integral part loop (lines 364-373) from position j on.
RECURSIVE SeparatedInteger(_, _, _)
SeparatedInteger(integer, variation, j) ==
    IF j >= Len(integer) THEN <<>>
    ELSE (IF j # 0 /\ (Len(integer) - j) % 3 = 0
          THEN variation.separator ELSE <<>>)
         \o (IF /\ isdigit(At(integer, j))
                /\ At(variation.digits, DigitOf(At(integer, j))) # NullStr
             THEN At(variation.digits, DigitOf(At(integer, j))) ELSE <<>>)
         \o SeparatedInteger(integer, variation, j + 1)

\* The fractional part loop (lines 379-381) from position j on.
RECURSIVE SeparatedFraction(_, _, _)
SeparatedFraction(fraction, variation, j) ==
    IF j >= Len(fraction) THEN <<>>
    ELSE At(variation.digits, DigitOf(At(fraction, j)))
         \o SeparatedFraction(fraction, variation, j + 1)

SeparatedResult(integer, fraction, variation) ==
    NumberString(
        SeparatedInteger(integer, variation, 0)
        \o (IF fraction # <<>>
            THEN variation.point \o SeparatedFraction(fraction, variation, 1)
            ELSE <<>>),
        variation.description, variation.style)

\* What integer[0] reads when |integer| is empty: the string_view holds no
\* such character, so the read is out of bounds and yields any byte.
OutOfBoundsBytes == {kAsciiZero, ".", "NUL"}

\* bool ArabicToSeparatedArabic(input_num, output); |first| is the value
\* integer[0] yields (the first character when there is one).
ArabicToSeparatedArabic(input_num, out, first) ==
    IF ~IsDecimalNumber(input_num) THEN [ret |-> FALSE, output |-> out]
    ELSE IF first = kAsciiZero THEN [ret |-> FALSE, output |-> out]
    ELSE [ret |-> TRUE,
          output |-> out \o
              [i \in 1..Len(kNumDigitsVariations) |->
                  SeparatedResult(IntegerPart(input_num),
                                  FractionPart(input_num),
                                  kNumDigitsVariations[i])]]

kSingleDigitsVariations ==
    << [digits |-> kNumKanjiDigits, description |-> "kansuuji",
        separator |-> NullStr, point |-> NullStr, numbers_size |-> 10,
        style |-> "NUMBER_KANJI_ARABIC"],
       [digits |-> kNumFullWidthDigits, description |-> "suuji",
        separator |-> NullStr, point |-> NullStr, numbers_size |-> 10,
        style |-> "DEFAULT_STYLE"] >>

RECURSIVE WideDigits(_, _, _)
WideDigits(input_num, variation, j) ==
    IF j >= Len(input_num) THEN <<>>
    ELSE At(variation.digits, DigitOf(At(input_num, j)))
         \o WideDigits(input_num, variation, j + 1)

RECURSIVE WideResults(_, _)
WideResults(input_num, i) ==
    IF i >= Len(kSingleDigitsVariations) THEN <<>>
    ELSE LET variation == At(kSingleDigitsVariations, i)
             result == WideDigits(input_num, variation, 0)
         IN  (IF result # <<>>
              THEN <<NumberString(result, variation.description,
                                  variation.style)>>
              ELSE <<>>)
             \o WideResults(input_num, i + 1)

ArabicToWideArabic(input_num, out) ==
    IF ~IsDecimalInteger(input_num) THEN [ret |-> FALSE, output |-> out]
    ELSE [ret |-> TRUE, output |-> out \o WideResults(input_num, 0)]

(***************************************************************************)
(* ArabicToOtherForms and ArabicToOtherRadixes                             *)
(***************************************************************************)

\* nullptr, the Roman numerals U+2160.. (RC1 .. RC12), nullptr
kRomanNumbersCapital ==
    << NullStr, <<"RC1">>, <<"RC2">>, <<"RC3">>, <<"RC4">>, <<"RC5">>,
       <<"RC6">>, <<"RC7">>, <<"RC8">>, <<"RC9">>, <<"RC10">>,
       <<"RC11">>, <<"RC12">>, NullStr >>

\* nullptr, the small Roman numerals U+2170.. (rs1 .. rs12), nullptr
kRomanNumbersSmall ==
    << NullStr, <<"rs1">>, <<"rs2">>, <<"rs3">>, <<"rs4">>, <<"rs5">>,
       <<"rs6">>, <<"rs7">>, <<"rs8">>, <<"rs9">>, <<"rs10">>,
       <<"rs11">>, <<"rs12">>, NullStr >>

\* nullptr, the circled numbers 1 .. 50 (c1 .. c50), nullptr
kCircledNumbers ==
    << NullStr, <<"c1">>, <<"c2">>, <<"c3">>, <<"c4">>, <<"c5">>,
       <<"c6">>, <<"c7">>, <<"c8">>, <<"c9">>, <<"c10">>, <<"c11">>,
       <<"c12">>, <<"c13">>, <<"c14">>, <<"c15">>, <<"c16">>,
       <<"c17">>, <<"c18">>, <<"c19">>, <<"c20">>, <<"c21">>,
       <<"c22">>, <<"c23">>, <<"c24">>, <<"c25">>, <<"c26">>,
       <<"c27">>, <<"c28">>, <<"c29">>, <<"c30">>, <<"c31">>,
       <<"c32">>, <<"c33">>, <<"c34">>, <<"c35">>, <<"c36">>,
       <<"c37">>, <<"c38">>, <<"c39">>, <<"c40">>, <<"c41">>,
       <<"c42">>, <<"c43">>, <<"c44">>, <<"c45">>, <<"c46">>,
       <<"c47">>, <<"c48">>, <<"c49">>, <<"c50">>, NullStr >>

kSpecialNumericVariations ==
    << [digits |-> kRomanNumbersCapital, description |-> "roman-capital",
        separator |-> NullStr, point |-> NullStr,
        numbers_size |-> Len(kRomanNumbersCapital),
        style |-> "NUMBER_ROMAN_CAPITAL"],
       [digits |-> kRomanNumbersSmall, description |-> "roman-small",
        separator |-> NullStr, point |-> NullStr,
        numbers_size |-> Len(kRomanNumbersSmall),
        style |-> "NUMBER_ROMAN_SMALL"],
       [digits |-> kCircledNumbers, description |-> "circled",
        separator |-> NullStr, point |-> NullStr,
        numbers_size |-> Len(kCircledNumbers),
        style |-> "NUMBER_CIRCLED"] >>

\* 10^100: '1' and a hundred '0'
kNumGoogol == <<"1">> \o Repeat(50, "0") \o Repeat(50, "0")

\* The value of a uint64_t known to be below 2^16, as an index.
Index(n) == n[1] + 256 * n[2]

\* SpecialForms without the test of variation.digits[n] against nullptr.
RECURSIVE SpecialFormsUnchecked(_, _)
SpecialFormsUnchecked(n, i) ==
    IF i >= Len(kSpecialNumericVariations) THEN <<>>
    ELSE (IF Lt(n, At(kSpecialNumericVariations, i).numbers_size)
          THEN <<NumberString(
                   At(At(kSpecialNumericVariations, i).digits, Index(n)),
                   At(kSpecialNumericVariations, i).description,
                   At(kSpecialNumericVariations, i).style)>>
          ELSE <<>>)
         \o SpecialFormsUnchecked(n, i + 1)

\* The loop over kSpecialNumericVariations (lines 473-480).
RECURSIVE SpecialForms(_, _)
SpecialForms(n, i) ==
    IF i >= Len(kSpecialNumericVariations) THEN <<>>
    ELSE LET variation == At(kSpecialNumericVariations, i)
         IN  (IF /\ Lt(n, variation.numbers_size)
                 /\ At(variation.digits, Index(n)) # NullStr
              THEN <<NumberString(At(variation.digits, Index(n)),
                                  variation.description, variation.style)>>
              ELSE <<>>)
             \o SpecialForms(n, i + 1)

\* input_num == kNumGoogol, as a variant that compares only the first 101
\* characters.
IsGoogolPrefix(input_num) ==
    /\ Len(input_num) >= Len(kNumGoogol)
    /\ SubSeq(input_num, 1, Len(kNumGoogol)) = kNumGoogol

\* input_num == kNumGoogol
IsGoogol(input_num) == input_num = kNumGoogol

\* The result pushed for the googol (lines 459-463); no description.
GoogolResults(input_num) ==
    IF IsGoogol(input_num)
    THEN <<NumberString(<<"G", "o", "o", "g", "o", "l">>, "",
                        "DEFAULT_STYLE")>>
    ELSE <<>>

\* return converted; after the special forms |forms| were pushed.
OtherFormsConverted(out, googol, forms) ==
    [ret |-> googol # <<>> \/ forms # <<>>, output |-> out \o googol \o forms]

\* Lines 466-482: n is what SimpleAtoi returned, googol what was pushed
\* for the googol (converted is true iff something was).
OtherFormsParsed(out, googol, n) ==
    IF ~n.ok THEN [ret |-> googol # <<>>, output |-> out \o googol]
    ELSE OtherFormsConverted(out, googol, SpecialForms(n.n, 0))

ArabicToOtherForms(input_num, out) ==
    IF ~IsDecimalInteger(input_num) THEN [ret |-> FALSE, output |-> out]
    ELSE OtherFormsParsed(out, GoogolResults(input_num),
                          SimpleAtoi(input_num))

\* for (num = n; num; num >>= 1) binary.push_back('0' + (num & 1));
RECURSIVE BinaryDigits(_)
BinaryDigits(num) ==
    IF IsZero(num) THEN <<>>
    ELSE <<At(kHexDigits, num[1] % 2)>> \o BinaryDigits(DivSmall(num, 2).q)

\* std::reverse
RECURSIVE Reverse(_)
Reverse(str) ==
    IF str = <<>> THEN <<>> ELSE Append(Reverse(Tail(str)), Head(str))

\* The descriptions of the radix results are romanised: "16", "8", "2".
HexResults(n) ==
    IF ~Lt(n, 10)
    THEN <<NumberString(StrFormatHex(n), "16", "NUMBER_HEX")>> ELSE <<>>

\* OctResults with the threshold of the hexadecimal form.
OctResultsAboveNine(n) ==
    IF ~Lt(n, 10)
    THEN <<NumberString(StrFormatOct(n), "8", "NUMBER_OCT")>> ELSE <<>>

OctResults(n) ==
    IF ~Lt(n, 8)
    THEN <<NumberString(StrFormatOct(n), "8", "NUMBER_OCT")>> ELSE <<>>

\* BinResults without the test n > 1 of line 511.
BinResultsFromZero(n) ==
    <<NumberString(Reverse(BinaryDigits(n) \o <<"b", "0">>), "2",
                   "NUMBER_BIN")>>

BinResults(n) ==
    IF ~Lt(n, 2)
    THEN <<NumberString(Reverse(BinaryDigits(n) \o <<"b", "0">>), "2",
                        "NUMBER_BIN")>>
    ELSE <<>>

\* Lines 493-522: n is what SimpleAtoi returned.
OtherRadixesParsed(out, n) ==
    IF ~n.ok THEN [ret |-> FALSE, output |-> out]
    ELSE [ret |-> ~Lt(n.n, 2),
          output |-> out \o HexResults(n.n) \o OctResults(n.n)
                         \o BinResults(n.n)]

ArabicToOtherRadixes(input_num, out) ==
    IF ~IsDecimalInteger(input_num) THEN [ret |-> FALSE, output |-> out]
    ELSE OtherRadixesParsed(out, SimpleAtoi(input_num))

(***************************************************************************)
(* SafeCast, SafeStrToInt16 and SafeStrToUInt16 (lines 556-595), with      *)
(* absl::SimpleAtoi for int32_t and uint32_t.  An int32_t is a TLA+        *)
(* integer; a uint32_t is a byte sequence like a uint64_t.                 *)
(***************************************************************************)

\* std::numeric_limits<T>::max() and min() of the types involved.
Int32Max == 2147483647
Int16Max == 32767
Int16Min == -32768
UInt16Max == 65535
UInt32Max == [i \in 1..8 |-> IF i <= 4 THEN 255 ELSE 0]

\* absl::SimpleAtoi first strips the ASCII whitespace around the text.
RECURSIVE LeadingSpaces(_, _)
LeadingSpaces(str, i) ==
    IF i < Len(str) /\ str[i + 1] = " " THEN LeadingSpaces(str, i + 1) ELSE i

RECURSIVE TrailingSpaces(_, _)
TrailingSpaces(str, j) ==
    IF j > 0 /\ str[j] = " " THEN TrailingSpaces(str, j - 1) ELSE j

StripAsciiWhitespace(str) ==
    SubSeq(str, LeadingSpaces(str, 0) + 1, TrailingSpaces(str, Len(str)))

\* Then it consumes one sign character.
IsNegative(text) == text # <<>> /\ text[1] = "-"
WithoutSign(text) ==
    IF text # <<>> /\ text[1] \in {"-", "+"} THEN Tail(text) ELSE text

Parsed(ok, n) == [ok |-> ok, n |-> n]

\* The digits of a non-negative int32_t from position i on: each step
\* checks result > vmax / 10 before the multiplication and
\* result > vmax - digit before the addition.
RECURSIVE ParsePositiveInt32(_, _, _)
ParsePositiveInt32(text, i, result) ==
    IF i > Len(text) THEN Parsed(TRUE, result)
    ELSE IF ~isdigit(text[i]) THEN Parsed(FALSE, result)
    ELSE IF result > Int32Max \div 10 THEN Parsed(FALSE, Int32Max)
    ELSE IF result * 10 > Int32Max - DigitOf(text[i])
    THEN Parsed(FALSE, Int32Max)
    ELSE ParsePositiveInt32(text, i + 1, result * 10 + DigitOf(text[i]))

\* The digits of a negative int32_t: result < vmin / 10 before the
\* multiplication and result < vmin + digit before the subtraction.
RECURSIVE ParseNegativeInt32(_, _, _)
ParseNegativeInt32(text, i, result) ==
    IF i > Len(text) THEN Parsed(TRUE, result)
    ELSE IF ~isdigit(text[i]) THEN Parsed(FALSE, result)
    ELSE IF result < -(Int32Max \div 10) THEN Parsed(FALSE, -Int32Max - 1)
    ELSE IF result * 10 < (-Int32Max - 1) + DigitOf(text[i])
    THEN Parsed(FALSE, -Int32Max - 1)
    ELSE ParseNegativeInt32(text, i + 1, result * 10 - DigitOf(text[i]))

\* absl::SimpleAtoi(str, &tmp) for int32_t tmp
SimpleAtoiInt32Stripped(text) ==
    IF WithoutSign(text) = <<>> THEN Parsed(FALSE, 0)
    ELSE IF IsNegative(text)
    THEN ParseNegativeInt32(WithoutSign(text), 1, 0)
    ELSE ParsePositiveInt32(WithoutSign(text), 1, 0)

SimpleAtoiInt32(str) == SimpleAtoiInt32Stripped(StripAsciiWhitespace(str))

\* The digits of a uint32_t from position i on; r10 is result * 10.
RECURSIVE ParseUInt32(_, _, _)
RECURSIVE ParseUInt32Digit(_, _, _)
ParseUInt32(text, i, result) ==
    IF i > Len(text) THEN Parsed(TRUE, result)
    ELSE IF ~isdigit(text[i]) THEN Parsed(FALSE, result)
    ELSE IF NatLess(DivSmall(UInt32Max, 10).q, result)
    THEN Parsed(FALSE, UInt32Max)
    ELSE ParseUInt32Digit(text, i, Wrap64(NatMul(result, U64(10))))

ParseUInt32Digit(text, i, r10) ==
    IF NatLess(UInt32Max, NatAdd(r10, U64(DigitOf(text[i]))))
    THEN Parsed(FALSE, UInt32Max)
    ELSE ParseUInt32(text, i + 1,
                     Wrap64(NatAdd(r10, U64(DigitOf(text[i])))))

\* absl::SimpleAtoi(str, &tmp) for uint32_t tmp: a negative text fails.
SimpleAtoiUInt32Stripped(text) ==
    IF WithoutSign(text) = <<>> \/ IsNegative(text) THEN Parsed(FALSE, U64(0))
    ELSE ParseUInt32(WithoutSign(text), 1, U64(0))

SimpleAtoiUInt32(str) == SimpleAtoiUInt32Stripped(StripAsciiWhitespace(str))

\* What a call leaves: the bool returned and *value (dest0 before it).
Cast(ok, v) == [ret |-> ok, value |-> v]

\* SafeCast<int32_t, int16_t> without the test against min().
SafeCastInt32ToInt16NoMin(src16, dest0) ==
    IF Int16Max < src16 THEN Cast(FALSE, dest0) ELSE Cast(TRUE, src16)

\* SafeCast<int32_t, int16_t>: both types are signed, the first test does
\* not apply.
SafeCastInt32ToInt16(src16, dest0) ==
    IF src16 < Int16Min \/ Int16Max < src16 THEN Cast(FALSE, dest0)
    ELSE Cast(TRUE, src16)

\* SafeCast<uint32_t, uint16_t>: the source is unsigned and never below 0.
SafeCastUInt32ToUInt16(src16, dest0) ==
    IF NatLess(U64(UInt16Max), src16) THEN Cast(FALSE, dest0)
    ELSE Cast(TRUE, src16[1] + 256 * src16[2])

SafeStrToInt16Parsed(tmp, dest0) ==
    IF ~tmp.ok THEN Cast(FALSE, dest0) ELSE SafeCastInt32ToInt16(tmp.n, dest0)

\* bool NumberUtil::SafeStrToInt16(str, value)
SafeStrToInt16(str, dest0) ==
    SafeStrToInt16Parsed(SimpleAtoiInt32(str), dest0)

SafeStrToUInt16Parsed(tmp, dest0) ==
    IF ~tmp.ok THEN Cast(FALSE, dest0)
    ELSE SafeCastUInt32ToUInt16(tmp.n, dest0)

\* bool NumberUtil::SafeStrToUInt16(str, value)
SafeStrToUInt16(str, dest0) ==
    SafeStrToUInt16Parsed(SimpleAtoiUInt32(str), dest0)

(***************************************************************************)
(* The state machine: one call of an entry point per behaviour, and for    *)
(* the round trip a call of NormalizeNumbers on a result of ArabicToKanji. *)
(***************************************************************************)

NoResult == NumberString(<<>>, "", "none")

\* The state before any call: the caller holds the argument |in|, or for
\* the reducer the token vector |nums|.
IdleWith(in, nums) ==
    /\ op = "idle"
    /\ input = in
    /\ trim = FALSE
    /\ ret = FALSE
    /\ output = <<>>
    /\ kanji_output = <<>>
    /\ arabic_output = <<>>
    /\ suffix = <<>>
    /\ numbers = nums
    /\ reduced = U64(0)
    /\ wrapped = FALSE
    /\ oob = FALSE
    /\ src = NoResult
    /\ dest = 0
    /\ ignored = FALSE
    /\ calls = 0
    /\ suffix_allowed = FALSE
    /\ cursor = 0
    /\ prev_base = U64Max
    /\ block = U64(0)
    /\ iterations = 0

Idle(in) == IdleWith(in, <<>>)

\* A forward converter returned r.
Returned(name, r) ==
    /\ op' = name
    /\ ret' = r.ret
    /\ output' = r.output
    /\ calls' = calls + 1
    /\ UNCHANGED <<input, trim, kanji_output, arabic_output, suffix,
                   numbers, reduced, wrapped, src, dest, ignored, locals>>

CallArabicToKanji ==
    /\ op = "idle"
    /\ Returned("ArabicToKanji", ArabicToKanji(input, output))
    /\ UNCHANGED oob

CallArabicToWideArabic ==
    /\ op = "idle"
    /\ Returned("ArabicToWideArabic", ArabicToWideArabic(input, output))
    /\ UNCHANGED oob

CallArabicToOtherForms ==
    /\ op = "idle"
    /\ Returned("ArabicToOtherForms", ArabicToOtherForms(input, output))
    /\ UNCHANGED oob

CallArabicToOtherRadixes ==
    /\ op = "idle"
    /\ Returned("ArabicToOtherRadixes", ArabicToOtherRadixes(input, output))
    /\ UNCHANGED oob

\* TRUE iff the call reaches line 353 with an empty |integer|.
ReadsPastEnd(input_num) ==
    IsDecimalNumber(input_num) /\ IntegerPart(input_num) = <<>>

\* What integer[0] can yield at line 353.
FirstBytes(input_num) ==
    IF IntegerPart(input_num) # <<>> THEN {IntegerPart(input_num)[1]}
    ELSE OutOfBoundsBytes

\* integer[0] is read in bounds when the integer part is not empty.
\* Otherwise the read is out of bounds: it yields any byte, or a hardened
\* string_view stops the program (op = "abort").
CallArabicToSeparatedArabic ==
    /\ op = "idle"
    /\ \/ \E first \in FirstBytes(input) :
             /\ Returned("ArabicToSeparatedArabic",
                         ArabicToSeparatedArabic(input, output, first))
             /\ oob' = ReadsPastEnd(input)
       \/ /\ ReadsPastEnd(input)
          /\ op' = "abort"
          /\ oob' = TRUE
          /\ calls' = calls + 1
          /\ UNCHANGED <<input, trim, ret, output, kanji_output,
                         arabic_output, suffix, numbers, reduced, wrapped,
                         src, dest, ignored, locals>>

\* A normalizer returned r for the text it was given.
Normalized(name, t, r) ==
    /\ op' = name
    /\ trim' = t
    /\ ret' = r.ret
    /\ kanji_output' = r.kanji_output
    /\ arabic_output' = r.arabic_output
    /\ suffix' = r.suffix
    /\ numbers' = r.numbers
    /\ reduced' = r.value
    /\ wrapped' = r.wrapped
    /\ ignored' = r.ignored
    /\ calls' = calls + 1
    /\ UNCHANGED <<input, output, oob, dest, locals>>

\* NormalizeNumbers passes nullptr for |suffix|: the caller's suffix string
\* is not touched.
CallNormalizeNumbers ==
    /\ op = "idle"
    /\ \E t \in BOOLEAN :
          Normalized("NormalizeNumbers", t,
                     [NormalizeNumbers(input, t) EXCEPT !.suffix = suffix])
    /\ UNCHANGED src

CallNormalizeNumbersWithSuffix ==
    /\ op = "idle"
    /\ \E t \in BOOLEAN :
          Normalized("NormalizeNumbersWithSuffix", t,
                     NormalizeNumbersWithSuffix(input, t, suffix))
    /\ UNCHANGED src

\* The round trip: NormalizeNumbers on the text of one of the results
\* ArabicToKanji pushed.
CallNormalizeNumbersOnResult ==
    /\ op = "ArabicToKanji"
    /\ \E i \in 1..Len(output), t \in BOOLEAN :
          /\ src' = output[i]
          /\ Normalized("RoundTrip", t,
                        [NormalizeNumbers(output[i].value, t)
                             EXCEPT !.suffix = suffix])

\* The reducer returned r for the token vector |numbers|.
Reduced(name, r) ==
    /\ op' = name
    /\ ret' = r.ok
    /\ reduced' = r.output
    /\ wrapped' = r.wrapped
    /\ ignored' = r.ignored
    /\ calls' = calls + 1
    /\ UNCHANGED <<input, trim, output, kanji_output, arabic_output, suffix,
                   numbers, oob, src, dest, locals>>

CallNormalizeNumbersHelper ==
    /\ op = "idle"
    /\ Reduced("NormalizeNumbersHelper", NormalizeNumbersHelper(numbers))

\* A 16-bit parser returned r.
Cast16Returned(name, r) ==
    /\ op' = name
    /\ ret' = r.ret
    /\ dest' = r.value
    /\ calls' = calls + 1
    /\ UNCHANGED <<input, trim, output, kanji_output, arabic_output, suffix,
                   numbers, reduced, wrapped, oob, src, ignored, locals>>

CallSafeStrToInt16 ==
    /\ op = "idle"
    /\ Cast16Returned("SafeStrToInt16", SafeStrToInt16(input, dest))

CallSafeStrToUInt16 ==
    /\ op = "idle"
    /\ Cast16Returned("SafeStrToUInt16", SafeStrToUInt16(input, dest))

(***************************************************************************)
(* NormalizeNumbersInternal step by step: one step per iteration of the    *)
(* tokenizer loop (lines 848-869) and of the do-while loop of              *)
(* InterpretNumbersInJapaneseWay (lines 791-809).  |cursor| is the         *)
(* iterator |begin| of the loop that runs: a character position in the     *)
(* tokenizer, a token position in the reducer.                             *)
(***************************************************************************)

\* Lines 837-846: the call starts, *kanji_output and *arabic_output are
\* cleared, begin is at the first character.
EnterNormalizeNumbersInternal ==
    /\ op = "idle"
    /\ \E t \in BOOLEAN, a \in BOOLEAN : trim' = t /\ suffix_allowed' = a
    /\ op' = "tokenizer"
    /\ cursor' = 0
    /\ numbers' = <<>>
    /\ kanji_output' = <<>>
    /\ arabic_output' = <<>>
    /\ iterations' = 0
    /\ calls' = calls + 1
    /\ UNCHANGED <<input, ret, output, suffix, reduced, wrapped, oob, src,
                   dest, ignored, prev_base, block>>

\* What SimpleAtoi yields for the character at |begin| (lines 850-857).
ParsedAt(text, begin) ==
    SimpleAtoi(KanjiNumberToArabicNumber(At(text, begin)))

\* The loop of line 848 makes an iteration at |begin| that does not break.
TokenParses(text, begin) == begin < Len(text) /\ ParsedAt(text, begin).ok

\* An iteration of the tokenizer loop that reaches line 868: the character
\* is echoed, its token is pushed and begin moves past it.
TokenizerIteration ==
    /\ op = "tokenizer"
    /\ TokenParses(input, cursor)
    /\ kanji_output' = kanji_output \o EchoOf(At(input, cursor))
    /\ numbers' = Append(numbers, ParsedAt(input, cursor).n)
    /\ cursor' = cursor + 1
    /\ iterations' = iterations + 1
    /\ UNCHANGED <<op, input, trim, ret, output, arabic_output, suffix,
                   reduced, wrapped, oob, src, dest, ignored, calls,
                   suffix_allowed, prev_base, block>>

\* NormalizeNumbersInternal returns r.
StepReturned(r) ==
    /\ op' = "NormalizeNumbersInternal"
    /\ ret' = r.ret
    /\ kanji_output' = r.kanji_output
    /\ arabic_output' = r.arabic_output
    /\ suffix' = r.suffix
    /\ numbers' = r.numbers
    /\ reduced' = r.value
    /\ wrapped' = r.wrapped
    /\ ignored' = r.ignored
    /\ UNCHANGED <<input, trim, output, oob, src, dest, calls,
                   suffix_allowed>>

\* Lines 870-880 and 818-826 return without the do-while loop: a suffix
\* that is not allowed, no token, or no token >= 10.
ReturnsBeforeLoop(text, begin, nums, allow_suffix) ==
    \/ (begin < Len(text) /\ ~allow_suffix)
    \/ nums = <<>>
    \/ ~MaxIsRank(nums)

\* The tokenizer loop ends, by its condition or by the break of line 858;
\* then lines 870-886 up to the first iteration of the do-while loop.
TokenizerDone ==
    /\ op = "tokenizer"
    /\ ~TokenParses(input, cursor)
    /\ IF ReturnsBeforeLoop(input, cursor, numbers, suffix_allowed)
       THEN /\ StepReturned(
                   NormalizeTokenized(input, trim, suffix_allowed, suffix,
                                      Tokens(cursor, kanji_output, numbers)))
            /\ UNCHANGED <<cursor, prev_base, block, iterations>>
       ELSE /\ op' = "InterpretNumbersInJapaneseWay"
            /\ suffix' = IF cursor < Len(input)
                         THEN SubSeq(input, cursor + 1, Len(input))
                         ELSE suffix
            /\ cursor' = 0
            /\ prev_base' = U64Max
            /\ reduced' = U64(0)
            /\ iterations' = 0
            /\ UNCHANGED <<input, trim, ret, output, kanji_output,
                           arabic_output, numbers, wrapped, oob, src, dest,
                           ignored, calls, suffix_allowed, block>>

\* The locals after the iteration |it| of the do-while loop; when it was
\* the last one, lines 884-904 follow and the call returns.
JapaneseWayStepped(it) ==
    /\ block' = it.coef
    /\ cursor' = it.begin
    /\ prev_base' = it.last_base
    /\ iterations' = iterations + 1
    /\ IF it.done
       THEN StepReturned(
                NormalizeReduced(Tokens(cursor, kanji_output, numbers), trim,
                                 suffix, JapaneseWayReturned(it)))
       ELSE /\ reduced' = it.output
            /\ wrapped' = it.wrapped
            /\ ignored' = it.ignored
            /\ UNCHANGED <<op, input, trim, ret, output, kanji_output,
                           arabic_output, suffix, numbers, oob, src, dest,
                           calls, suffix_allowed>>

\* One iteration of the do-while loop.
JapaneseWayStep ==
    /\ op = "InterpretNumbersInJapaneseWay"
    /\ JapaneseWayStepped(
           JapaneseWayIteration(numbers, cursor, reduced, prev_base, wrapped))

\* ReduceNumberLessThan10000 returned b for the token vector |numbers| and
\* begin at its first token; |wrapped| is set iff one of its unchecked
\* additions went above 2^64 - 1.
BlockReturned(b) ==
    /\ op' = "ReduceNumberLessThan10000"
    /\ ret' = b.ok
    /\ block' = b.num
    /\ cursor' = b.begin
    /\ wrapped' = b.overflowed
    /\ ignored' = b.ignored
    /\ calls' = calls + 1
    /\ UNCHANGED <<input, trim, output, kanji_output, arabic_output, suffix,
                   numbers, reduced, oob, src, dest, suffix_allowed,
                   prev_base, iterations>>

CallReduceNumberLessThan10000 ==
    /\ op = "idle"
    /\ BlockReturned(ReduceNumberLessThan10000(numbers, 0))

(***************************************************************************)
(* Inputs and specifications                                               *)
(***************************************************************************)

\* All texts of length n over an alphabet.
RECURSIVE TextsOfLen(_, _)
TextsOfLen(alphabet, n) ==
    IF n = 0 THEN {<<>>}
    ELSE {<<c>> \o t : c \in alphabet, t \in TextsOfLen(alphabet, n - 1)}

TextsUpTo(alphabet, n) == UNION {TextsOfLen(alphabet, k) : k \in 0..n}

\* The decimal digits of 2^64 - 1 and of 2^64.
U64MaxDigits == StrFormatU(U64Max)
TwoTo64Digits == StrFormatU(NatAdd(U64Max, U64(1)))

\* Inputs of ArabicToKanji: every digit string of up to MaxDigits digits
\* over KanjiAlphabet, numbers of two and three groups, the powers of ten
\* up to 10^21 and the numbers around 2^64.
MaxDigits == 4
KanjiAlphabet == {"0", "1", "2"}
KanjiHeads == {<<"1">>, <<"2", "1">>, <<"1", "0", "1", "0">>,
               <<"9", "9", "9", "9">>}
KanjiTails == {<<"0", "0", "0", "0">>, <<"0", "0", "0", "1">>,
               <<"0", "0", "1", "0">>, <<"0", "1", "0", "0">>,
               <<"1", "0", "0", "0">>, <<"2", "0", "2", "0">>,
               <<"1", "1", "1", "1">>, <<"3", "4", "5", "6">>,
               <<"9", "0", "0", "9">>}
KanjiInputs ==
    TextsUpTo(KanjiAlphabet, MaxDigits)
    \cup {<<d>> \o Repeat(k, "0") : d \in {"3", "9"}, k \in 0..3}
    \cup {<<"1", "9">>, <<"9", "9">>, <<"3", "2", "1">>,
          <<"9", "8", "7", "6">>}
    \cup {h \o t : h \in KanjiHeads, t \in KanjiTails}
    \cup {h \o t \o t : h \in KanjiHeads, t \in KanjiTails}
    \cup {<<"1">> \o Repeat(k, "0") : k \in 5..21}
    \cup {<<d>> \o Repeat(19, "0") : d \in {"1", "2"}}
    \cup {U64MaxDigits, TwoTo64Digits, Repeat(20, "9"), Repeat(20, "1"),
          Repeat(21, "1"), Repeat(23, "0"), <<"0">> \o U64MaxDigits,
          <<"0">> \o Repeat(19, "9"), <<"0", "0", "0", "0", "1">>,
          <<"1", "x">>, <<"x">>, <<"w1">>}

InitKanji == \E in \in KanjiInputs : Idle(in)
NextKanji == CallArabicToKanji \/ CallNormalizeNumbersOnResult
SpecKanji == InitKanji /\ [][NextKanji]_vars

\* 10^k as a uint64_t (k <= 19).
Pow10(k) == SimpleAtoi(<<"1">> \o Repeat(k, "0")).n

\* The tokens of a text of ASCII digits.
DigitTokens(str) == [i \in 1..Len(str) |-> U64(DigitOf(str[i]))]

\* The tokens of a number below 10000 written with every rank:
\* [a, 1000, b, 100, c, 10, d].
Block(a, b, c, d) ==
    <<U64(a), U64(1000), U64(b), U64(100), U64(c), U64(10), U64(d)>>

\* 1844 kei 6744 chou 737 oku 955 man, the head of 2^64 - 1 in ranks.
U64MaxHead ==
    Block(1, 8, 4, 4) \o <<Pow10(16)>> \o Block(6, 7, 4, 4) \o <<Pow10(12)>>
    \o <<U64(7), U64(100), U64(3), U64(10), U64(7), Pow10(8)>>
    \o <<U64(9), U64(100), U64(5), U64(10), U64(5), Pow10(4)>>

\* Token vectors of the reducer: every vector of up to MaxTokens tokens
\* over TokenAlphabet, every pair of a digit and a rank, runs of up to
\* MaxRun nines alone and after a rank, vectors with a rank twice and with
\* a digit run after a rank, and the numbers around 2^64 in positional and
\* in rank notation.
MaxTokens == 3
MaxRun == 21
TokenAlphabet ==
    {U64(0), U64(1), U64(2), U64(10), U64(100), U64(1000), U64(10000),
     Pow10(8)}
TokenVectors ==
    TextsUpTo(TokenAlphabet, MaxTokens)
    \cup {<<U64(d), U64(r)>> : d \in 1..9, r \in {10, 20, 100, 1000, 10000}}
    \cup {Repeat(k, U64(9)) : k \in 1..MaxRun}
    \cup {<<U64(r)>> \o Repeat(k, U64(9)) :
             r \in {10, 100, 1000}, k \in {1, 2, 3, 4, MaxRun - 1}}
    \cup {DigitTokens(U64MaxDigits), DigitTokens(TwoTo64Digits),
          <<U64(0), U64(0)>> \o DigitTokens(U64MaxDigits),
          <<U64(5), U64(4), U64(3)>>,
          <<U64(3), U64(100), U64(4), U64(100)>>,
          <<U64(3), U64(100), U64(4), U64(5), U64(100)>>,
          <<U64(100), U64(1), U64(2), U64(100)>>,
          <<U64(1000), U64(1), U64(2), U64(100)>>,
          <<U64(2), U64(1000), U64(3), U64(4), U64(5), U64(6)>>,
          <<U64(3), U64(100), Pow10(4), U64(4), U64(100)>>,
          <<U64(2), U64(1000), Pow10(16)>>,
          <<U64(1), U64(1000), U64(8), U64(100), Pow10(16)>>,
          Block(1, 8, 4, 4) \o <<Pow10(16)>> \o Block(9, 9, 9, 9)
              \o <<Pow10(12)>>,
          U64MaxHead \o <<U64(1000), U64(6), U64(100), U64(10), U64(5)>>,
          U64MaxHead \o <<U64(1000), U64(6), U64(100), U64(10), U64(6)>>,
          Block(1, 2, 3, 4) \o <<Pow10(4)>> \o Block(5, 6, 7, 8)}

InitReducer == \E nums \in TokenVectors : IdleWith(<<>>, nums)
NextReducer == CallNormalizeNumbersHelper
SpecReducer == InitReducer /\ [][NextReducer]_vars

\* Texts given to the normalizers: every text of up to MaxChars characters
\* over NormAlphabet, and runs of up to MaxZeros zero glyphs alone and
\* before a numeral.
MaxChars == 3
MaxZeros == 4
NormAlphabet == {"k0", "k1", "juu", "man", "0", "x"}
ZeroGlyphs == {"k0", "rei", "0", "w0"}
NormTails ==
    {<<>>, <<"k1">>, <<"k2", "juu">>, <<"nijuu">>, <<"sen", "k2", "hyaku">>,
     <<"1", "2">>, <<"w3", "w4">>, <<"k1", "man">>, <<"o1", "ojuu">>,
     <<"k5", "x">>, <<"x">>, <<"k1", "k0">>, <<"sen", "k1", "k2", "k3", "k4">>,
     Repeat(20, "k9")}
NormInputs ==
    TextsUpTo(NormAlphabet, MaxChars)
    \cup {Repeat(z, g) \o t : z \in 0..MaxZeros, g \in ZeroGlyphs,
                             t \in NormTails}
    \cup {<<"k0", "rei", "0", "w0">>, <<"w0", "0">>, <<"rei", "k0", "k7">>}

InitNormalize == \E in \in NormInputs : Idle(in)
NextNormalize == CallNormalizeNumbers \/ CallNormalizeNumbersWithSuffix
SpecNormalize == InitNormalize /\ [][NextNormalize]_vars

\* The characters "0" .. "9" and "a" .. "f" by value.
RadixChars ==
    << "0", "1", "2", "3", "4", "5", "6", "7", "8", "9",
       "a", "b", "c", "d", "e", "f" >>

\* The numeral of the integer n in a radix, most significant digit first.
RECURSIVE Numeral(_, _)
Numeral(n, radix) ==
    (IF n < radix THEN <<>> ELSE Numeral(n \div radix, radix))
    \o <<RadixChars[(n % radix) + 1]>>

\* Inputs of ArabicToOtherRadixes: the numbers up to MaxRadixValue, some
\* with leading zeros, larger numbers, the numbers around 2^64 and texts
\* that are no decimal integers.
MaxRadixValue == 70
RadixInputs ==
    {Numeral(n, 10) : n \in 0..MaxRadixValue}
    \cup {<<"0">> \o Numeral(n, 10) : n \in 0..12}
    \cup {Numeral(n, 10) : n \in {255, 256, 511, 512, 4095, 65535, 65536}}
    \cup {U64MaxDigits, TwoTo64Digits, <<>>, <<"1", "x">>, <<"-", "1">>,
          <<"1", ".", "5">>, <<"w1">>}

InitRadix == \E in \in RadixInputs : Idle(in)
NextRadix == CallArabicToOtherRadixes
SpecRadix == InitRadix /\ [][NextRadix]_vars

\* Inputs of ArabicToOtherForms: the numbers up to MaxFormsValue, some
\* with leading zeros, the googol and its neighbours, the numbers around
\* 2^64 and texts that are no decimal integers.
MaxFormsValue == 60
FormsInputs ==
    {Numeral(n, 10) : n \in 0..MaxFormsValue}
    \cup {<<"0">> \o Numeral(n, 10) : n \in 0..13}
    \cup {<<"0", "0">> \o Numeral(n, 10) : n \in {0, 1, 12, 13, 50, 51}}
    \cup {Numeral(n, 10) : n \in {100, 112, 150, 256, 1000, 65536}}
    \cup {<<"1">> \o Repeat(k, "0") : k \in {1, 2, 19, 20, 98, 99, 100, 101,
                                             102}}
    \cup {<<"0", "1">> \o Repeat(100, "0"), <<"2">> \o Repeat(100, "0"),
          <<"1">> \o Repeat(99, "0") \o <<"1">>,
          <<"1", "1">> \o Repeat(99, "0"), Repeat(40, "0"),
          <<"1">> \o Repeat(100, "0") \o <<"x">>,
          U64MaxDigits, TwoTo64Digits, <<>>, <<"1", "x">>, <<"-", "1">>,
          <<"RC1">>}

InitForms == \E in \in FormsInputs : Idle(in)
NextForms == CallArabicToOtherForms
SpecForms == InitForms /\ [][NextForms]_vars

\* Inputs of ArabicToSeparatedArabic: integer parts of 0 .. MaxIntegerLen
\* digits, each alone and before a fraction or a malformed tail.
MaxIntegerLen == 13
IntegerParts ==
    UNION {{Repeat(l, "1"),
            [i \in 1..l |-> RadixChars[(i % 10) + 1]],
            [i \in 1..l |-> IF i = 1 THEN "9" ELSE "0"],
            [i \in 1..l |-> IF i = 1 THEN "0" ELSE "3"]} :
           l \in 0..MaxIntegerLen}
FractionParts ==
    {<<>>, <<".">>, <<".", "5">>, <<".", "0", "5">>,
     <<".", "8", "9", "0", "1">>, <<".", "5", ".">>, <<".", ".">>,
     <<"x">>, <<",", "5">>}
SeparatedInputs == {i \o f : i \in IntegerParts, f \in FractionParts}

InitSeparated == \E in \in SeparatedInputs : Idle(in)
NextSeparated == CallArabicToSeparatedArabic
SpecSeparated == InitSeparated /\ [][NextSeparated]_vars

\* The forward converters that read the glyph tables, on the inputs of
\* each of them.
ForwardInputs == KanjiInputs \cup SeparatedInputs \cup FormsInputs

InitForward == \E in \in ForwardInputs : Idle(in)
NextForward ==
    \/ CallArabicToKanji
    \/ CallArabicToSeparatedArabic
    \/ CallArabicToWideArabic
    \/ CallArabicToOtherForms
SpecForward == InitForward /\ [][NextForward]_vars

\* A caller that makes up to MaxCalls calls with the same result vector
\* and output strings: what a call finds in them is what the earlier calls
\* left.  The arguments: decimal texts, malformed texts, numerals with and
\* without a suffix, a numeral the grammar rejects and one that overflows.
MaxCalls == 2
CallerInputs ==
    {<<>>, <<"0">>, <<"1", "2">>, <<".", "5">>, <<"1", "x">>, <<"x">>,
     <<"k1", "juu">>, <<"k2", "juu", "x">>, Repeat(21, "9")}

\* The caller picks the argument of its next call; the locals of the call
\* that returned are gone, the result vector and the output strings stay.
CallerPicksNext ==
    /\ op \notin {"idle", "abort"}
    /\ calls < MaxCalls
    /\ \E in \in CallerInputs : input' = in
    /\ op' = "idle"
    /\ trim' = FALSE
    /\ ret' = FALSE
    /\ numbers' = <<>>
    /\ reduced' = U64(0)
    /\ wrapped' = FALSE
    /\ ignored' = FALSE
    /\ oob' = FALSE
    /\ UNCHANGED <<output, kanji_output, arabic_output, suffix, src, dest,
                   calls, locals>>

InitCaller == \E in \in CallerInputs : Idle(in)
NextCaller ==
    \/ CallArabicToKanji
    \/ CallArabicToSeparatedArabic
    \/ CallArabicToWideArabic
    \/ CallArabicToOtherForms
    \/ CallArabicToOtherRadixes
    \/ CallNormalizeNumbers
    \/ CallNormalizeNumbersWithSuffix
    \/ CallerPicksNext
SpecCaller == InitCaller /\ [][NextCaller]_vars

\* Token vectors given to ReduceNumberLessThan10000: every vector of up to
\* MaxBlockTokens tokens over BlockAlphabet, the blocks with every rank,
\* and the vectors of the reducer.
MaxBlockTokens == 4
BlockAlphabet == {U64(0), U64(9), U64(10), U64(100), U64(1000), U64(10000)}
BlockVectors ==
    TextsUpTo(BlockAlphabet, MaxBlockTokens)
    \cup {Block(a, b, c, d) : a \in {1, 9}, b \in {0, 9}, c \in {2, 9},
                             d \in {0, 9}}
    \cup {<<U64(9), U64(1000)>> \o Repeat(k, U64(9)) : k \in 1..4}
    \cup {<<U64(9), U64(1000), U64(9), U64(100)>> \o Repeat(k, U64(9)) :
             k \in 1..3}
    \cup {<<U64(9), U64(1000), U64(9), U64(100), U64(20), U64(9)>>,
          <<U64(9), U64(9), U64(9), U64(9), Pow10(8)>>}
    \cup TokenVectors

InitBlock == \E nums \in BlockVectors : IdleWith(<<>>, nums)
NextBlock == CallReduceNumberLessThan10000
SpecBlock == InitBlock /\ [][NextBlock]_vars

\* Texts given to the call that runs step by step: every text of up to
\* MaxStepChars characters over StepAlphabet, numerals of several blocks
\* with their multipliers in and out of order, numerals with a digit run
\* after a rank, and the numerals around 2^64.
MaxStepChars == 3
StepAlphabet == {"0", "k9", "w2", "juu", "hyaku", "man", "x"}
StepInputs ==
    TextsUpTo(StepAlphabet, MaxStepChars)
    \cup {<<"k1", "man", "k2", "sen", "k3", "hyaku", "k4", "juu", "k5">>,
          <<"k1", "oku", "k2", "man", "k3">>,
          <<"k1", "kei", "k1", "chou", "k1", "oku", "k1", "man", "k1">>,
          <<"k1", "man", "k1", "man">>, <<"k1", "man", "k1", "oku">>,
          <<"k1", "man", "man">>, <<"man", "k1">>,
          <<"hyaku", "k9", "k9", "k9", "man", "k1", "man">>,
          <<"hyaku", "k9", "k9", "k9", "man", "man">>,
          <<"k1", "man", "hyaku", "k9", "k9", "k9", "oku">>,
          <<"sen", "k1", "k2", "hyaku">>,
          <<"1", "8", "4", "4", "kei", "6", "7", "4", "4", "chou", "7", "3",
            "7", "oku", "9", "5", "5", "man", "1", "6", "1", "5">>,
          <<"1", "8", "4", "4", "kei", "6", "7", "4", "4", "chou", "7", "3",
            "7", "oku", "9", "5", "5", "man", "1", "6", "1", "6">>,
          <<"1", "8", "4", "5", "kei">>, <<"k2", "sen", "kei">>,
          <<"k0", "k0", "k1", "man", "en">>, Repeat(21, "k9"),
          <<"w1", "2", "k3">>, <<"k3", "hyaku", "k4", "hyaku">>}

InitSteps == \E in \in StepInputs : Idle(in)
NextSteps ==
    \/ EnterNormalizeNumbersInternal
    \/ TokenizerIteration
    \/ TokenizerDone
    \/ JapaneseWayStep
SpecSteps == InitSteps /\ [][NextSteps]_vars

\* A call in progress: NormalizeNumbersInternal has not returned.  Each
\* action of NextSteps is enabled in some of these states and in no other,
\* one of them in each, and each changes calls, iterations or op.
Running == op \in {"idle", "tokenizer", "InterpretNumbersInJapaneseWay"}

\* The thread that runs the call keeps running: weak fairness of NextSteps,
\* with ENABLED <<NextSteps>>_vars written out as Running.
SpecStepsFair ==
    SpecSteps /\ ([]<>(~Running) \/ []<><<NextSteps>>_vars)

\* Texts given to the 16-bit parsers: the numbers up to MaxParsed with and
\* without a sign, the limits of the 16-bit and 32-bit types and their
\* neighbours, texts with spaces, leading zeros and malformed texts.  The
\* caller's variable holds 0 or 7 before the call.
MaxParsed == 12
ParseLimits ==
    {<<"3", "2", "7", "6", "7">>, <<"3", "2", "7", "6", "8">>,
     <<"3", "2", "7", "6", "9">>, <<"6", "5", "5", "3", "5">>,
     <<"6", "5", "5", "3", "6">>, <<"9", "9", "9", "9", "9">>,
     <<"1", "0", "0", "0", "0", "0">>,
     <<"2", "1", "4", "7", "4", "8", "3", "6", "4", "7">>,
     <<"2", "1", "4", "7", "4", "8", "3", "6", "4", "8">>,
     <<"2", "1", "4", "7", "4", "8", "3", "6", "4", "9">>,
     <<"4", "2", "9", "4", "9", "6", "7", "2", "9", "5">>,
     <<"4", "2", "9", "4", "9", "6", "7", "2", "9", "6">>,
     <<"4", "2", "9", "4", "9", "6", "7", "3", "0", "0">>,
     <<"4", "2", "9", "5", "0", "3", "2", "8", "3", "1">>,
     <<"9", "9", "9", "9", "9", "9", "9", "9", "9", "9">>,
     <<"0", "0", "0", "3", "2", "7", "6", "7">>,
     <<"0", "0", "0", "0", "0", "0", "0", "0", "0", "0", "0", "1">>,
     Repeat(12, "9")}
ParseInputs ==
    {sign \o Numeral(n, 10) : sign \in {<<>>, <<"-">>, <<"+">>},
                              n \in 0..MaxParsed}
    \cup {sign \o t : sign \in {<<>>, <<"-">>, <<"+">>}, t \in ParseLimits}
    \cup {<<>>, <<"-">>, <<"+">>, <<" ">>, <<" ", "1">>, <<"1", " ">>,
          <<" ", "-", "1", " ">>, <<"1", " ", "2">>, <<"-", " ", "1">>,
          <<"-", "-", "1">>, <<"+", "-", "1">>, <<"1", "x">>, <<"x">>,
          <<"0", "x", "1", "0">>, <<"1", ".", "5">>, <<"1", "e", "3">>,
          <<"w1">>, <<"k1">>}

InitParse ==
    \E in \in ParseInputs, prior \in {0, 7} :
        /\ op = "idle"
        /\ input = in
        /\ trim = FALSE
        /\ ret = FALSE
        /\ output = <<>>
        /\ kanji_output = <<>>
        /\ arabic_output = <<>>
        /\ suffix = <<>>
        /\ numbers = <<>>
        /\ reduced = U64(0)
        /\ wrapped = FALSE
        /\ oob = FALSE
        /\ src = NoResult
        /\ dest = prior
        /\ ignored = FALSE
        /\ calls = 0
        /\ suffix_allowed = FALSE
        /\ cursor = 0
        /\ prev_base = U64Max
        /\ block = U64(0)
        /\ iterations = 0
NextParse == CallSafeStrToInt16 \/ CallSafeStrToUInt16
SpecParse == InitParse /\ [][NextParse]_vars

(***************************************************************************)
(* Reference notions for the properties, defined on texts and integers     *)
(* without the converters.                                                 *)
(***************************************************************************)

DecimalDigits == {RadixChars[i] : i \in 1..10}
IsDigits(str) == \A i \in 1..Len(str) : str[i] \in DecimalDigits
DigitValue(c) == CHOOSE i \in 0..9 : RadixChars[i + 1] = c

\* str is str(n) for a natural n: digits without a leading zero.
Canonical(str) ==
    /\ str # <<>>
    /\ IsDigits(str)
    /\ (str[1] # "0" \/ Len(str) = 1)

\* a <= b for two digit strings of the same length.
RECURSIVE DigitsLeq(_, _)
DigitsLeq(a, b) ==
    IF a = <<>> THEN TRUE
    ELSE IF a[1] # b[1] THEN DigitValue(a[1]) < DigitValue(b[1])
    ELSE DigitsLeq(Tail(a), Tail(b))

\* str(2^64 - 1)
MaxU64Text ==
    <<"1", "8", "4", "4", "6", "7", "4", "4", "0", "7", "3", "7", "0", "9",
      "5", "5", "1", "6", "1", "5">>

\* The canonical digit string str denotes a number <= 2^64 - 1.
FitsU64(str) ==
    Len(str) < Len(MaxU64Text)
    \/ (Len(str) = Len(MaxU64Text) /\ DigitsLeq(str, MaxU64Text))

\* The integer a short digit string denotes.
RECURSIVE IntValue(_)
IntValue(str) ==
    IF str = <<>> THEN 0
    ELSE 10 * IntValue(SubSeq(str, 1, Len(str) - 1))
         + DigitValue(str[Len(str)])

ShortDecimal(str) == Len(str) \in 1..7 /\ IsDigits(str)

\* The texts and styles of a result vector.
Shown(out) == [i \in 1..Len(out) |-> <<out[i].value, out[i].style>>]

\* Every token is a digit.
Positional(nums) == \A i \in 1..Len(nums) : \E d \in 0..9 : nums[i] = U64(d)

\* The number of leading zero tokens.
LeadingZeroTokens(nums) ==
    CHOOSE z \in 0..Len(nums) :
        /\ \A i \in 1..z : nums[i] = U64(0)
        /\ (z = Len(nums) \/ nums[z + 1] # U64(0))

\* The digits of a vector of digit tokens, without its leading zeros
\* ("0" when every token is zero).
StrippedDigits(nums) ==
    IF LeadingZeroTokens(nums) = Len(nums) THEN <<"0">>
    ELSE [i \in 1..(Len(nums) - LeadingZeroTokens(nums)) |->
             RadixChars[(CHOOSE d \in 0..9 :
                            nums[LeadingZeroTokens(nums) + i] = U64(d)) + 1]]

\* text is the decimal rendering of the uint64_t n.
IsRendering(text, n) ==
    Canonical(text) /\ SimpleAtoi(text) = [ok |-> TRUE, n |-> n]

Normalizers == {"NormalizeNumbers", "NormalizeNumbersWithSuffix"}

(***************************************************************************)
(* C1: the round trip ArabicToKanji, then NormalizeNumbers                 *)
(***************************************************************************)

KanjiStyles == {"NUMBER_KANJI", "NUMBER_OLD_KANJI"}

\* NormalizeNumbers ran on a plain-Kanji or Daiji result of
\* ArabicToKanji(str(n)).
RoundTripCase ==
    op = "RoundTrip" /\ Canonical(input) /\ src.style \in KanjiStyles

\* Some 4-digit group of str has the digit 1 at its tens or hundreds place.
OneAtTensOrHundreds(str) ==
    \E i \in 1..Len(str) : str[i] = "1" /\ (Len(str) - i) % 4 \in {1, 2}

\* The single-glyph results: zero (rei), ten (ojuu) and thousand (osen).
SingleGlyphs == {<<"rei">>, <<"ojuu">>, <<"osen">>}

\* C1 as stated: every plain-Kanji or Daiji result of ArabicToKanji(str(n))
\* is accepted by NormalizeNumbers and yields the arabic output str(n).
C1_RoundTripOfEveryResult == RoundTripCase => (ret /\ arabic_output = input)

\* C1 amended: NormalizeNumbers accepts a plain-Kanji or Daiji result of
\* ArabicToKanji(str(n)) exactly when n <= 2^64 - 1 and the result is a
\* plain-Kanji one, a single glyph (zero, ten, thousand), or a Daiji
\* spelling (with or without the glyph for twenty) of a number none of
\* whose 4-digit groups has the digit 1 at its tens or hundreds place; and
\* whenever it accepts, the arabic output is str(n).
C1_RoundTrip ==
    RoundTripCase =>
        /\ ret = (/\ FitsU64(input)
                  /\ \/ src.style = "NUMBER_KANJI"
                     \/ src.value \in SingleGlyphs
                     \/ ~OneAtTensOrHundreds(input))
        /\ (ret => arabic_output = input)

\* C1 witness: the plain-Kanji spelling of 2^64 - 1 has been normalized
\* back to its digits.
C1_RoundTripReached ==
    /\ RoundTripCase
    /\ input = MaxU64Text
    /\ src.style = "NUMBER_KANJI"
    /\ ret
    /\ arabic_output = input

(***************************************************************************)
(* C2, C3: the reducer on token vectors                                    *)
(***************************************************************************)

\* C2: the reducer never returns a value when an exact intermediate sum or
\* product was above 2^64 - 1, and in positional mode it succeeds exactly
\* when the number the digits denote is at most 2^64 - 1, returning that
\* number.
C2_OverflowSafety ==
    op = "NormalizeNumbersHelper" =>
        /\ (wrapped => ~ret)
        /\ (numbers # <<>> /\ Positional(numbers)) =>
               /\ ret = FitsU64(StrippedDigits(numbers))
               /\ (ret => StrFormatU(reduced) = StrippedDigits(numbers))

\* C3: the vector [1, 10] and the vector [1, 100] fail; [1, 1000] gives
\* 1000; [d, R] for d in 2..9 and R in {10, 100, 1000} gives d * R.
C3_OnePlusRank ==
    (op = "NormalizeNumbersHelper" /\ Len(numbers) = 2) =>
        \A d \in 1..9, r \in {10, 100, 1000} :
            (numbers = <<U64(d), U64(r)>>) =>
                IF d = 1 /\ r # 1000 THEN ~ret
                ELSE ret /\ reduced = U64(d * r)

\* C3 witness: the reducer has rejected [1, 100].
C3_OneHundredRejected ==
    /\ op = "NormalizeNumbersHelper"
    /\ numbers = <<U64(1), U64(100)>>
    /\ ~ret

(***************************************************************************)
(* C4, C5: leading zeros of the arabic output                              *)
(***************************************************************************)

\* NormalizeNumbers ran on a text of zero glyphs only.
AllZeroCase ==
    /\ op = "NormalizeNumbers"
    /\ input # <<>>
    /\ \A i \in 1..Len(input) : input[i] \in ZeroGlyphs

\* C4 as stated: for an input of k >= 2 zero glyphs and no trimming, the
\* call succeeds and the arabic output has k - 1 characters '0'.
C4_OneFewerZero ==
    (AllZeroCase /\ ~trim /\ Len(input) >= 2) =>
        (ret /\ arabic_output = [i \in 1..(Len(input) - 1) |-> "0"])

\* C4 amended: for an input of k >= 1 zero glyphs the call succeeds; with
\* no trimming the arabic output has exactly k characters '0' (k - 1
\* leading zeros and the rendering "0" of the value), with trimming it is
\* "0".
C4_AllZeros ==
    AllZeroCase =>
        /\ ret
        /\ arabic_output =
               [i \in 1..(IF trim THEN 1 ELSE Len(input)) |-> "0"]

\* C4 witness: three zero glyphs gave "000".
C4_ThreeZerosReached ==
    /\ AllZeroCase
    /\ ~trim
    /\ input = <<"k0", "k0", "k0">>
    /\ arabic_output = <<"0", "0", "0">>

\* C5: for an accepted token vector with z leading zero tokens and a
\* non-zero token, the arabic output is z characters '0' (none when
\* trimming) followed by the decimal rendering of the reduced value; in
\* positional mode that rendering is the digits after the leading zeros.
C5_LeadingZerosKept ==
    (/\ op \in Normalizers
     /\ ret
     /\ \E i \in 1..Len(numbers) : numbers[i] # U64(0)) =>
        /\ Len(arabic_output) >
               (IF trim THEN 0 ELSE LeadingZeroTokens(numbers))
        /\ \A i \in 1..(IF trim THEN 0 ELSE LeadingZeroTokens(numbers)) :
               arabic_output[i] = "0"
        /\ IsRendering(
               SubSeq(arabic_output,
                      (IF trim THEN 0 ELSE LeadingZeroTokens(numbers)) + 1,
                      Len(arabic_output)),
               reduced)
        /\ Positional(numbers) =>
               SubSeq(arabic_output,
                      (IF trim THEN 0 ELSE LeadingZeroTokens(numbers)) + 1,
                      Len(arabic_output)) = StrippedDigits(numbers)

\* C5 witness: two zero glyphs before a twenty gave "0020" in rank mode.
C5_ZerosBeforeTwentyReached ==
    /\ op = "NormalizeNumbers"
    /\ ~trim
    /\ input = <<"k0", "k0", "k2", "juu">>
    /\ ret
    /\ arabic_output = <<"0", "0", "2", "0">>

(***************************************************************************)
(* C6: ArabicToOtherRadixes                                                *)
(***************************************************************************)

\* The results expected for the integer n: hexadecimal above 9, octal
\* above 7, binary above 1.
ExpectedRadixes(n) ==
    (IF n > 9
     THEN << <<(<<"0", "x">> \o Numeral(n, 16)), "NUMBER_HEX">> >>
     ELSE <<>>)
    \o (IF n > 7
        THEN << <<(<<"0">> \o Numeral(n, 8)), "NUMBER_OCT">> >> ELSE <<>>)
    \o (IF n > 1
        THEN << <<(<<"0", "b">> \o Numeral(n, 2)), "NUMBER_BIN">> >>
        ELSE <<>>)

\* C6: for an input parsing to n the results are the hexadecimal form iff
\* n > 9, the octal form iff n > 7 and the binary form iff n > 1, in this
\* order, and the call succeeds iff n > 1; "255" gives 0xff, 0377 and
\* 0b11111111; 2^64 - 1 gives sixteen f, a 1 and twenty-one 7, and
\* sixty-four 1.
C6_OtherRadixes ==
    op = "ArabicToOtherRadixes" =>
        /\ ShortDecimal(input) =>
               /\ Shown(output) = ExpectedRadixes(IntValue(input))
               /\ ret = (IntValue(input) > 1)
        /\ (input = <<"2", "5", "5">>) =>
               Shown(output) =
                   << <<(<<"0", "x", "f", "f">>), "NUMBER_HEX">>,
                      <<(<<"0", "3", "7", "7">>), "NUMBER_OCT">>,
                      <<(<<"0", "b", "1", "1", "1", "1", "1", "1", "1",
                           "1">>), "NUMBER_BIN">> >>
        /\ (input = MaxU64Text) =>
               /\ ret
               /\ Shown(output) =
                      << <<(<<"0", "x">> \o [i \in 1..16 |-> "f"]),
                           "NUMBER_HEX">>,
                         <<(<<"0", "1">> \o [i \in 1..21 |-> "7"]),
                           "NUMBER_OCT">>,
                         <<(<<"0", "b">> \o [i \in 1..64 |-> "1"]),
                           "NUMBER_BIN">> >>

\* C6 witness: "255" has been converted into three results.
C6_TwoFiftyFiveReached ==
    /\ op = "ArabicToOtherRadixes"
    /\ input = <<"2", "5", "5">>
    /\ ret
    /\ Len(output) = 3

(***************************************************************************)
(* C7, C8: ArabicToOtherForms                                              *)
(***************************************************************************)

\* '1' and a hundred '0'
GoogolText == [i \in 1..101 |-> IF i = 1 THEN "1" ELSE "0"]
GoogolName == <<"G", "o", "o", "g", "o", "l">>

\* C7: on the googol the call succeeds with the one result "Googol",
\* though the number is above 2^64 - 1; on every other input no result is
\* "Googol".
C7_Googol ==
    op = "ArabicToOtherForms" =>
        IF input = GoogolText
        THEN /\ ret
             /\ Shown(output) = << <<GoogolName, "DEFAULT_STYLE">> >>
             /\ ~FitsU64(input)
             /\ ~SimpleAtoi(input).ok
        ELSE \A i \in 1..Len(output) : output[i].value # GoogolName

\* C7 witness: the googol has been converted.
C7_GoogolReached ==
    /\ op = "ArabicToOtherForms"
    /\ input = GoogolText
    /\ ret
    /\ Len(output) = 1

\* The results expected for the integer n: the two Roman numerals for
\* 1..12, then the circled number for 1..50.
ExpectedForms(n) ==
    (IF n \in 1..12
     THEN << <<(<<"RC" \o ToString(n)>>), "NUMBER_ROMAN_CAPITAL">>,
             <<(<<"rs" \o ToString(n)>>), "NUMBER_ROMAN_SMALL">> >>
     ELSE <<>>)
    \o (IF n \in 1..50
        THEN << <<(<<"c" \o ToString(n)>>), "NUMBER_CIRCLED">> >>
        ELSE <<>>)

\* C8: for an input parsing to n the results are the Roman capital and the
\* Roman small numeral iff 1 <= n <= 12 and the circled number iff
\* 1 <= n <= 50, in this order, and the call succeeds iff a result was
\* pushed; for 2^64 - 1 there is no result.
C8_OtherForms ==
    op = "ArabicToOtherForms" =>
        /\ ShortDecimal(input) =>
               /\ Shown(output) = ExpectedForms(IntValue(input))
               /\ ret = (IntValue(input) \in 1..50)
        /\ (input = MaxU64Text) => (~ret /\ output = <<>>)

\* C8 witness: "13" has given the circled number alone.
C8_ThirteenReached ==
    /\ op = "ArabicToOtherForms"
    /\ input = <<"1", "3">>
    /\ ret
    /\ Shown(output) = << <<(<<"c13">>), "NUMBER_CIRCLED">> >>

(***************************************************************************)
(* C9, C10: ArabicToSeparatedArabic                                        *)
(***************************************************************************)

SeparatorGlyphs == {",", "w,"}
PointGlyphs == {".", "w."}

\* The number of digits str starts with.
LeadingDigits(str) ==
    CHOOSE k \in 0..Len(str) :
        /\ \A i \in 1..k : str[i] \in DecimalDigits
        /\ (k = Len(str) \/ str[k + 1] \notin DecimalDigits)

\* The part of a result before its point glyph.
RenderedInteger(text) ==
    SubSeq(text, 1,
           CHOOSE k \in 0..Len(text) :
               /\ \A i \in 1..k : text[i] \notin PointGlyphs
               /\ (k = Len(text) \/ text[k + 1] \in PointGlyphs))

\* The number of separators that stand before the digits 0 .. j of an
\* integer part of l digits.
SeparatorsBefore(l, j) == Cardinality({k \in 1..j : (l - k) % 3 = 0})

\* The integer part |text| of a result places its separators every three
\* digits from the right, for the |l| digits |digits|.
PlacedFromRight(text, digits, l) ==
    /\ Len(text) = l + ((l - 1) \div 3)
    /\ Cardinality({p \in 1..Len(text) : text[p] \in SeparatorGlyphs})
           = (l - 1) \div 3
    /\ text[1] \notin SeparatorGlyphs
    /\ text[Len(text)] \notin SeparatorGlyphs
    /\ \A j \in 0..(l - 1) :
           /\ text[j + SeparatorsBefore(l, j) + 1]
                  \in {digits[j + 1], "w" \o digits[j + 1]}
           /\ (/\ j + SeparatorsBefore(l, j) > 0
               /\ text[j + SeparatorsBefore(l, j)] \in SeparatorGlyphs)
              <=> (j # 0 /\ (l - j) % 3 = 0)

\* C9: in every result of an accepted input with an integer part of
\* l >= 1 digits, a separator stands immediately before digit j iff
\* j # 0 and l - j is a multiple of 3; there are (l - 1) div 3 separators
\* and none is first or last.
C9_SeparatorPlacement ==
    (op = "ArabicToSeparatedArabic" /\ ret /\ LeadingDigits(input) >= 1) =>
        \A r \in 1..Len(output) :
            PlacedFromRight(RenderedInteger(output[r].value), input,
                            LeadingDigits(input))

\* C9 witness: an integer part of 13 digits has got its 4 separators.
C9_ThirteenDigitsReached ==
    /\ op = "ArabicToSeparatedArabic"
    /\ ret
    /\ LeadingDigits(input) = 13
    /\ Len(output) = 2
    /\ Cardinality({p \in 1..Len(output[1].value) :
                       output[1].value[p] \in SeparatorGlyphs}) = 4

\* A text of digits with at most one '.'.
WellFormedDecimal(str) ==
    /\ \A i \in 1..Len(str) : str[i] \in DecimalDigits \cup {"."}
    /\ Cardinality({i \in 1..Len(str) : str[i] = "."}) <= 1

\* The digits ds with a comma before every group of three from the right.
RECURSIVE Grouped(_)
Grouped(ds) ==
    IF Len(ds) <= 3 THEN ds
    ELSE Grouped(SubSeq(ds, 1, Len(ds) - 3)) \o <<",">>
         \o SubSeq(ds, Len(ds) - 2, Len(ds))

\* The two results expected for a well-formed decimal: the grouped integer
\* part and the fraction unchanged, then the same in full-width glyphs.
ExpectedHalfWidth(str) ==
    Grouped(SubSeq(str, 1, LeadingDigits(str)))
    \o SubSeq(str, LeadingDigits(str) + 1, Len(str))

ExpectedSeparated(str) ==
    << <<ExpectedHalfWidth(str), "NUMBER_SEPARATED_ARABIC_HALFWIDTH">>,
       <<[i \in 1..Len(ExpectedHalfWidth(str)) |->
             "w" \o ExpectedHalfWidth(str)[i]],
         "NUMBER_SEPARATED_ARABIC_FULLWIDTH">> >>

\* C10: the call fails with no result when the input is no well-formed
\* decimal or its integer part starts with '0'; on every other input it
\* returns success with exactly the half-width and the full-width result.
C10_Acceptance ==
    op \in {"ArabicToSeparatedArabic", "abort"} =>
        IF ~WellFormedDecimal(input) \/ (input # <<>> /\ input[1] = "0")
        THEN ~ret /\ output = <<>>
        ELSE ret /\ Shown(output) = ExpectedSeparated(input)

(***************************************************************************)
(* C11, C12, C13: ArabicToKanji, the all-zeros case, the magnitude bound   *)
(* and the styles                                                          *)
(***************************************************************************)

\* A non-empty text of '0' characters only.
AllZeroText(str) == str # <<>> /\ \A i \in 1..Len(str) : str[i] = "0"

\* The styles of a result vector, in order.
StylesOf(out) == [i \in 1..Len(out) |-> out[i].style]

\* C11: ArabicToKanji on a non-empty text of '0' characters, of any length,
\* succeeds with exactly one result, the glyph for zero (rei) in the Daiji
\* style.
C11_AllZerosToKanji ==
    (op = "ArabicToKanji" /\ AllZeroText(input)) =>
        /\ ret
        /\ Shown(output) = << <<<<"rei">>, "NUMBER_OLD_KANJI">> >>

\* C11 witness: 23 zeros, more digits than the ranks support, converted.
C11_ManyZerosReached ==
    /\ op = "ArabicToKanji"
    /\ input = [i \in 1..23 |-> "0"]
    /\ ret
    /\ Len(output) = 1

C13_StyleSelection ==
    (op = "ArabicToKanji" /\ ret /\ ~AllZeroText(input)) =>
        /\ Len(output) >= (IF Len(input) > 4 THEN 4 ELSE 2)
        /\ SubSeq(StylesOf(output), 1, IF Len(input) > 4 THEN 4 ELSE 2)
               = (IF Len(input) > 4
                  THEN <<"NUMBER_ARABIC_AND_KANJI_HALFWIDTH",
                         "NUMBER_ARABIC_AND_KANJI_FULLWIDTH",
                         "NUMBER_KANJI", "NUMBER_OLD_KANJI">>
                  ELSE <<"NUMBER_KANJI", "NUMBER_OLD_KANJI">>)
        /\ \A i \in 1..Len(output) :
               i > (IF Len(input) > 4 THEN 4 ELSE 2)
                   => output[i].style = "NUMBER_OLD_KANJI"

\* C13 witness: a 5-digit text with leading zeros got the four base styles.
C13_FiveDigitsReached ==
    /\ op = "ArabicToKanji"
    /\ input = <<"0", "0", "0", "0", "1">>
    /\ ret
    /\ Len(output) = 4

(***************************************************************************)
(* C14 .. C17: what a call leaves in the caller's variables                *)
(***************************************************************************)

ForwardConverters ==
    {"ArabicToKanji", "ArabicToSeparatedArabic", "ArabicToWideArabic",
     "ArabicToOtherForms", "ArabicToOtherRadixes"}

\* C14: a forward converter that returns failure leaves the caller's
\* result vector as it was before the call, and a call that changes the
\* vector returns success; a call only appends.
C14_NoPartialOutput ==
    [][op' \in ForwardConverters =>
           /\ ~ret' => output' = output
           /\ output' # output => ret'
           /\ Len(output') >= Len(output)
           /\ SubSeq(output', 1, Len(output)) = output]_vars

\* C14 witness: a second call failed while the vector held the results of
\* the first call.
C14_FailureAfterResultsReached ==
    /\ op \in ForwardConverters
    /\ calls = 2
    /\ ~ret
    /\ output # <<>>

\* C15: a normalizer that returns failure leaves the kanji echo and the
\* arabic output empty and does not write the suffix.
C15_NoPartialNormalizerOutput ==
    [][(op' \in Normalizers /\ ~ret') =>
           /\ kanji_output' = <<>>
           /\ arabic_output' = <<>>
           /\ suffix' = suffix]_vars

\* A character that has a numeral value: a decimal digit or a glyph of the
\* table.
HasNumeralValue(c) ==
    c \in DecimalDigits \/ c \in DOMAIN kanjinumber_to_arabicnumber_table

\* The length of the longest prefix of characters with a numeral value.
NumeralPrefixLen(text) ==
    CHOOSE k \in 0..Len(text) :
        /\ \A i \in 1..k : HasNumeralValue(text[i])
        /\ (k = Len(text) \/ ~HasNumeralValue(text[k + 1]))

\* The numeral value of a character.
NumeralValue(c) ==
    IF c \in DecimalDigits THEN U64(DigitValue(c))
    ELSE SimpleAtoi(kanjinumber_to_arabicnumber_table[c]).n

\* C16: NormalizeNumbers fails on a text with a character that has no
\* numeral value; after NormalizeNumbersWithSuffix the suffix is the text
\* from the first such character on (empty when there is none), the tokens
\* are those of the prefix before it, and the call fails when that prefix
\* is empty.
C16_SuffixCapture ==
    /\ op = "NormalizeNumbers" =>
           (NumeralPrefixLen(input) < Len(input) => ~ret)
    /\ op = "NormalizeNumbersWithSuffix" =>
           /\ suffix = SubSeq(input, NumeralPrefixLen(input) + 1, Len(input))
           /\ numbers = [i \in 1..NumeralPrefixLen(input) |->
                            NumeralValue(input[i])]
           /\ (NumeralPrefixLen(input) = 0 => ~ret)

\* What a call on the arguments of the state leaves when the caller's
\* variables were empty before it (and integer[0] is read as the
\* terminating NUL when the integer part is empty).
FreshNormalize(t, in) == NormalizeNumbersWithSuffix(in, t, <<>>)
FreshForward(name, in) ==
    IF name = "ArabicToKanji" THEN ArabicToKanji(in, <<>>)
    ELSE IF name = "ArabicToWideArabic" THEN ArabicToWideArabic(in, <<>>)
    ELSE IF name = "ArabicToOtherForms" THEN ArabicToOtherForms(in, <<>>)
    ELSE IF name = "ArabicToOtherRadixes"
    THEN ArabicToOtherRadixes(in, <<>>)
    ELSE ArabicToSeparatedArabic(
             in, <<>>,
             IF IntegerPart(in) # <<>> THEN IntegerPart(in)[1] ELSE "NUL")

\* C17: the outcome of a call is a function of its arguments: the flag, the
\* echo, the digits and the suffix of NormalizeNumbersWithSuffix, the flag,
\* the echo and the digits of NormalizeNumbers, and the flag and the
\* results a forward converter appends are those of the same call by a
\* caller whose variables were empty.
C17_Determinism ==
    [][/\ op' = "NormalizeNumbersWithSuffix" =>
              /\ ret' = FreshNormalize(trim', input').ret
              /\ kanji_output' = FreshNormalize(trim', input').kanji_output
              /\ arabic_output' = FreshNormalize(trim', input').arabic_output
              /\ suffix' = FreshNormalize(trim', input').suffix
       /\ op' = "NormalizeNumbers" =>
              /\ ret' = NormalizeNumbers(input', trim').ret
              /\ kanji_output' = NormalizeNumbers(input', trim').kanji_output
              /\ arabic_output' =
                     NormalizeNumbers(input', trim').arabic_output
       /\ op' \in ForwardConverters =>
              /\ ret' = FreshForward(op', input').ret
              /\ output' = output \o FreshForward(op', input').output]_vars

(***************************************************************************)
(* C18: SafeStrToInt16 and SafeStrToUInt16                                 *)
(***************************************************************************)

\* The text without the spaces around it.
Body(str) ==
    IF \A i \in 1..Len(str) : str[i] = " " THEN <<>>
    ELSE SubSeq(str,
                CHOOSE a \in 1..Len(str) :
                    str[a] # " " /\ \A i \in 1..(a - 1) : str[i] = " ",
                CHOOSE b \in 1..Len(str) :
                    str[b] # " " /\ \A i \in (b + 1)..Len(str) : str[i] = " ")

\* The digits of a literal: the body without its sign character.
LiteralDigits(str) ==
    IF Body(str) # <<>> /\ Body(str)[1] \in {"+", "-"}
    THEN Tail(Body(str)) ELSE Body(str)
LiteralIsNegative(str) == Body(str) # <<>> /\ Body(str)[1] = "-"

\* A digit string without its leading zeros.
RECURSIVE WithoutLeadingZeros(_)
WithoutLeadingZeros(digits) ==
    IF Len(digits) > 1 /\ digits[1] = "0"
    THEN WithoutLeadingZeros(Tail(digits)) ELSE digits

\* The text is a decimal literal whose magnitude is at most |limit|
\* (limit < 10^5).
MagnitudeWithin(str, limit) ==
    /\ LiteralDigits(str) # <<>>
    /\ IsDigits(LiteralDigits(str))
    /\ Len(WithoutLeadingZeros(LiteralDigits(str))) <= 5
    /\ IntValue(WithoutLeadingZeros(LiteralDigits(str))) <= limit

Magnitude(str) == IntValue(WithoutLeadingZeros(LiteralDigits(str)))

\* The text denotes an integer of [-32768, 32767]; of [0, 65535] without a
\* minus sign.
DenotesInt16(str) ==
    IF LiteralIsNegative(str) THEN MagnitudeWithin(str, 32768)
    ELSE MagnitudeWithin(str, 32767)
DenotesUInt16(str) == ~LiteralIsNegative(str) /\ MagnitudeWithin(str, 65535)

\* C18: SafeStrToInt16 returns true exactly for the texts that denote an
\* integer of [-32768, 32767], SafeStrToUInt16 exactly for those that denote
\* one of [0, 65535] without a minus sign; on success *value is that
\* integer, on failure *value is what it was before the call.
C18_Bounded16BitParsing ==
    [][/\ op' = "SafeStrToInt16" =>
              /\ ret' = DenotesInt16(input')
              /\ ret' => dest' = (IF LiteralIsNegative(input')
                                  THEN -Magnitude(input')
                                  ELSE Magnitude(input'))
              /\ ~ret' => dest' = dest
       /\ op' = "SafeStrToUInt16" =>
              /\ ret' = DenotesUInt16(input')
              /\ ret' => dest' = Magnitude(input')
              /\ ~ret' => dest' = dest]_vars

\* C18 witness: SafeStrToInt16 refused 32768, which parses as an int32_t,
\* and left the caller's 7 in place.
C18_RangeFailureReached ==
    /\ op = "SafeStrToInt16"
    /\ input = <<"3", "2", "7", "6", "8">>
    /\ ~ret
    /\ dest = 7

(***************************************************************************)
(* C19, C20: tokens the reducer cannot consume                             *)
(***************************************************************************)

\* C19: in rank mode the reducer returns a value only if it consumed every
\* token: no call succeeds after it forced its iterator to the end and so
\* threw away the digit run it had read and the tokens after it.
C19_UnconsumableTokensFail ==
    (op = "NormalizeNumbersHelper" /\ MaxIsRank(numbers)) =>
        (ret => ~ignored)

\* The ranks of a block: 10, 100 and 1000.
OnesRanks == {U64(10), U64(100), U64(1000)}

\* Some rank of a block occurs twice in nums with no bigger-rank
\* multiplier (a token >= 10000) between the two occurrences.
SameRankTwice(nums) ==
    \E i, j \in 1..Len(nums) :
        /\ i < j
        /\ nums[i] \in OnesRanks
        /\ nums[j] = nums[i]
        /\ \A k \in (i + 1)..(j - 1) : Lt(nums[k], 10000)

\* C20: a token vector in which a rank of a block (10, 100 or 1000) occurs
\* twice before a bigger-rank multiplier or the end makes the reducer fail.
C20_SameRankTwiceFails ==
    (op = "NormalizeNumbersHelper" /\ SameRankTwice(numbers)) => ~ret

\* The same, apart from the calls that threw tokens away.
SameRankTwiceFailsUnlessIgnored ==
    (op = "NormalizeNumbersHelper" /\ SameRankTwice(numbers) /\ ~ignored)
        => ~ret

(***************************************************************************)
(* C21, C22, C23: the blocks and multipliers of the reducer                *)
(***************************************************************************)

\* The call that ran step by step has left what NormalizeNumbersInternal
\* leaves for the same arguments.
StepsAgreeWithCall ==
    op = "NormalizeNumbersInternal" =>
        NormalizeNumbersInternal(input, trim, suffix_allowed, <<>>)
            = [ret |-> ret, kanji_output |-> kanji_output,
               arabic_output |-> arabic_output, suffix |-> suffix,
               numbers |-> numbers, value |-> reduced, wrapped |-> wrapped,
               ignored |-> ignored]

\* A token that can only be a bigger-rank multiplier: 10^4 and above.
IsMultiplier(token) == ~Lt(token, 10000)

\* The multipliers of a token vector decrease strictly from left to right.
MultipliersDecrease(nums) ==
    \A i, j \in 1..Len(nums) :
        (i < j /\ IsMultiplier(nums[i]) /\ IsMultiplier(nums[j]))
            => NatLess(nums[j], nums[i])

\* The vector starts with a multiplier, or has two adjacent multipliers.
HasEmptyBlock(nums) ==
    \/ (nums # <<>> /\ IsMultiplier(nums[1]))
    \/ \E i \in 1..(Len(nums) - 1) :
           IsMultiplier(nums[i]) /\ IsMultiplier(nums[i + 1])

\* An iteration of the do-while loop that applies a multiplier leaves it in
\* last_base: it is at least 10000 and below the one applied before.
AppliedMultipliersDecrease ==
    [][(op = "InterpretNumbersInJapaneseWay" /\ prev_base' # prev_base)
           => (IsMultiplier(prev_base') /\ NatLess(prev_base', prev_base))]_vars

\* A rank-mode reduction that succeeded.
RankModeSucceeded ==
    op = "NormalizeNumbersInternal" /\ ret /\ MaxIsRank(numbers)

\* C21: in every successful rank-mode reduction the multipliers applied to
\* successive blocks are each >= 10000 and strictly decreasing; a token
\* sequence whose next multiplier is equal to or greater than the previous
\* one fails, and so does one that starts with a multiplier or has two
\* adjacent multipliers.
C21_MultiplierOrdering ==
    /\ AppliedMultipliersDecrease
    /\ [](RankModeSucceeded =>
              (MultipliersDecrease(numbers) /\ ~HasEmptyBlock(numbers)))

\* C21 holds of every reduction that did not force its iterator to the end
\* (line 703).
MultiplierOrderingUnlessIgnored ==
    (RankModeSucceeded /\ ~ignored) =>
        (MultipliersDecrease(numbers) /\ ~HasEmptyBlock(numbers))

\* C22: every value ReduceNumberLessThan10000 returns with success lies in
\* [0, 10000), for every token sequence, and none of its unchecked
\* additions *num += n goes above 2^64 - 1.
C22_BlockValueBelow10000 ==
    (op = "ReduceNumberLessThan10000" /\ ret) =>
        (Lt(block, 10000) /\ ~wrapped)

\* C22 witness: the block [9, 1000, 9, 100, 9, 10, 9] has given 9999, the
\* largest block value.
C22_LargestBlockReached ==
    /\ op = "ReduceNumberLessThan10000"
    /\ numbers = Block(9, 9, 9, 9)
    /\ ret
    /\ block = U64(9999)
    /\ cursor = Len(numbers)

\* C23: an empty token sequence fails; when every token is below 10 the
\* reducer returns the base-10 number whose digits are the tokens, and
\* fails exactly when that number is above 2^64 - 1; when some token is
\* >= 10 it returns what the Japanese rank grammar returns.
C23_ModeSelection ==
    op = "NormalizeNumbersHelper" =>
        /\ (numbers = <<>>) => ~ret
        /\ (numbers # <<>> /\ Positional(numbers)) =>
               /\ ret <=> FitsU64(StrippedDigits(numbers))
               /\ ret => StrFormatU(reduced) = StrippedDigits(numbers)
        /\ (~Positional(numbers)) =>
               /\ ret = InterpretNumbersInJapaneseWay(numbers).ok
               /\ reduced = InterpretNumbersInJapaneseWay(numbers).output

\* C23 witness: the reducer has read [5, 4, 3] positionally as 543.
C23_FiveFourThreeReached ==
    /\ op = "NormalizeNumbersHelper"
    /\ numbers = <<U64(5), U64(4), U64(3)>>
    /\ ret
    /\ reduced = U64(543)

(***************************************************************************)
(* C24, C25, C26: the plain-Kanji and Daiji results of ArabicToKanji       *)
(***************************************************************************)

\* The glyphs of the digits 1..9 and the words of the ranks, per style:
\* plain Kanji, then Daiji.
PlainDigitGlyphs == <<"k1", "k2", "k3", "k4", "k5", "k6", "k7", "k8", "k9">>
DaijiDigitGlyphs == <<"o1", "o2", "o3", "k4", "k5", "k6", "k7", "k8", "k9">>
PlainRankWords == <<"juu", "hyaku", "sen">>
DaijiRankWords == <<"ojuu", "hyaku", "osen">>
PlainBigRankWords == <<"man", "oku", "chou", "kei">>
DaijiBigRankWords == <<"oman", "oku", "chou", "kei">>

\* The place of the character i of str in its 4-digit group (0 the ones,
\* 3 the thousands) and the group it is in (0 the least significant).
PlaceOf(str, i) == (Len(str) - i) % 4
GroupOf(str, i) == (Len(str) - i) \div 4

\* Some digit of the group of character i is not zero.
GroupIsNonZero(str, i) ==
    \E j \in 1..Len(str) : GroupOf(str, j) = GroupOf(str, i) /\ str[j] # "0"

\* What the digit at character i contributes: nothing for a zero; else its
\* glyph, left out for a 1 above the ones place unless the style is Daiji,
\* then the rank word of its place.
DigitWords(str, i, daiji) ==
    IF str[i] = "0" THEN <<>>
    ELSE (IF str[i] = "1" /\ PlaceOf(str, i) # 0 /\ ~daiji THEN <<>>
          ELSE <<(IF daiji THEN DaijiDigitGlyphs
                  ELSE PlainDigitGlyphs)[DigitValue(str[i])]>>)
         \o (IF PlaceOf(str, i) = 0 THEN <<>>
             ELSE <<(IF daiji THEN DaijiRankWords
                     ELSE PlainRankWords)[PlaceOf(str, i)]>>)

\* The bigger-rank word that closes the group of character i.
GroupWord(str, i, daiji) ==
    IF PlaceOf(str, i) = 0 /\ GroupOf(str, i) > 0 /\ GroupIsNonZero(str, i)
    THEN <<(IF daiji THEN DaijiBigRankWords
            ELSE PlainBigRankWords)[GroupOf(str, i)]>>
    ELSE <<>>

\* The numeral of the digit string str from character i on.
RECURSIVE KanjiNumeral(_, _, _)
KanjiNumeral(str, i, daiji) ==
    IF i > Len(str) THEN <<>>
    ELSE DigitWords(str, i, daiji) \o GroupWord(str, i, daiji)
         \o KanjiNumeral(str, i + 1, daiji)

\* The first result of a style in a result vector.
FirstOf(out, style) ==
    out[CHOOSE i \in 1..Len(out) :
            /\ out[i].style = style
            /\ \A j \in 1..(i - 1) : out[j].style # style]

\* ArabicToKanji has converted a text that is not all zeros.
KanjiConverted == op = "ArabicToKanji" /\ ret /\ ~AllZeroText(input)

\* C24: the plain-Kanji result spells the digit 1 only at the ones place
\* of its 4-digit group (at the tens, hundreds and thousands places only
\* the rank word stands), the Daiji result spells it at every place; in
\* both a zero digit gives neither glyph nor rank word and every other
\* digit is followed by the rank word of its place.
C24_OmissionOfOne ==
    KanjiConverted =>
        /\ FirstOf(output, "NUMBER_KANJI").value
               = KanjiNumeral(input, 1, FALSE)
        /\ FirstOf(output, "NUMBER_OLD_KANJI").value
               = KanjiNumeral(input, 1, TRUE)

\* C24 witness: 1111 has given sen-hyaku-juu-k1 in plain Kanji and
\* o1-osen-o1-hyaku-o1-ojuu-o1 in Daiji.
C24_AllOnesReached ==
    /\ op = "ArabicToKanji"
    /\ input = <<"1", "1", "1", "1">>
    /\ FirstOf(output, "NUMBER_KANJI").value = <<"sen", "hyaku", "juu", "k1">>
    /\ FirstOf(output, "NUMBER_OLD_KANJI").value
           = <<"o1", "osen", "o1", "hyaku", "o1", "ojuu", "o1">>

\* The text with every daiji two followed by daiji ten written as the
\* single glyph for twenty.
RECURSIVE WithTwenties(_)
WithTwenties(text) ==
    IF text = <<>> THEN <<>>
    ELSE IF Len(text) >= 2 /\ text[1] = "o2" /\ text[2] = "ojuu"
    THEN <<"nijuu">> \o WithTwenties(SubSeq(text, 3, Len(text)))
    ELSE <<text[1]>> \o WithTwenties(Tail(text))

\* The text holds a daiji two followed by a daiji ten.
HasTwoTen(text) ==
    \E i \in 1..(Len(text) - 1) : text[i] = "o2" /\ text[i + 1] = "ojuu"

\* Some 4-digit group of str has the tens digit 2.
HasTensDigitTwo(str) ==
    \E i \in 1..Len(str) : str[i] = "2" /\ PlaceOf(str, i) = 1

\* The position of the base Daiji result in a result vector.
DaijiAt(out) ==
    CHOOSE i \in 1..Len(out) :
        /\ out[i].style = "NUMBER_OLD_KANJI"
        /\ \A j \in 1..(i - 1) : out[j].style # "NUMBER_OLD_KANJI"

\* The results that hold the single glyph for twenty.
TwentyResults(out) ==
    {i \in 1..Len(out) : \E j \in 1..Len(out[i].value) :
                             out[i].value[j] = "nijuu"}

\* C25: the base Daiji result holds a daiji two-ten exactly when some
\* 4-digit group has the tens digit 2; exactly then ArabicToKanji emits,
\* right after the base Daiji result, one more Daiji result: the base
\* result with every two-ten written as the glyph for twenty.
C25_TwentyDuplicate ==
    KanjiConverted =>
        /\ HasTwoTen(output[DaijiAt(output)].value) <=> HasTensDigitTwo(input)
        /\ TwentyResults(output) =
               IF HasTensDigitTwo(input) THEN {DaijiAt(output) + 1} ELSE {}
        /\ HasTensDigitTwo(input) =>
               /\ output[DaijiAt(output) + 1].style = "NUMBER_OLD_KANJI"
               /\ output[DaijiAt(output) + 1].description
                      = output[DaijiAt(output)].description
               /\ output[DaijiAt(output) + 1].value
                      = WithTwenties(output[DaijiAt(output)].value)
               /\ ~HasTwoTen(output[DaijiAt(output) + 1].value)

\* C25 witness: 1 2020 2020 has given a duplicate with both two-tens
\* replaced.
C25_TwoTwentiesReached ==
    /\ op = "ArabicToKanji"
    /\ input = <<"1", "2", "0", "2", "0", "2", "0", "2", "0">>
    /\ Len(output) = 5
    /\ output[5].value = <<"o1", "oku", "o2", "osen", "nijuu", "oman",
                           "o2", "osen", "nijuu">>

\* The results whose text is the single glyph.
SingleGlyphResults(out, glyph) ==
    {i \in 1..Len(out) : out[i].value = <<glyph>>}

\* The zero-filled input is the single 4-digit group 0010, resp. 1000.
IsTenAlone(str) == str \in {<<"1", "0">>, <<"0", "1", "0">>,
                            <<"0", "0", "1", "0">>}
IsThousandAlone(str) == str = <<"1", "0", "0", "0">>

\* C26: ArabicToKanji emits the Daiji result of the single glyph for ten
\* exactly when the zero-filled input is the single group 0010, and that of
\* the single glyph for thousand exactly when it is 1000, each right after
\* the base Daiji result (one-ten, one-thousand); no other input, a
\* number of several groups with a group 0010 or 1000 included, gets one.
C26_SingleGlyphOverrides ==
    KanjiConverted =>
        /\ SingleGlyphResults(output, "ojuu") =
               IF IsTenAlone(input) THEN {DaijiAt(output) + 1} ELSE {}
        /\ SingleGlyphResults(output, "osen") =
               IF IsThousandAlone(input) THEN {DaijiAt(output) + 1} ELSE {}
        /\ IsTenAlone(input) =>
               /\ output[DaijiAt(output)].value = <<"o1", "ojuu">>
               /\ output[DaijiAt(output) + 1].style = "NUMBER_OLD_KANJI"
        /\ IsThousandAlone(input) =>
               /\ output[DaijiAt(output)].value = <<"o1", "osen">>
               /\ output[DaijiAt(output) + 1].style = "NUMBER_OLD_KANJI"

\* C26 witness: 10 has given ten, one-ten and the single glyph for ten.
C26_TenReached ==
    /\ op = "ArabicToKanji"
    /\ input = <<"1", "0">>
    /\ Len(output) = 3
    /\ output[2].value = <<"o1", "ojuu">>
    /\ output[3].value = <<"ojuu">>

(***************************************************************************)
(* C27: the Kanji echo of the tokenizer                                    *)
(***************************************************************************)

\* The ASCII digits, the full-width digits and the plain-Kanji digits.
AsciiDigitChars == <<"0", "1", "2", "3", "4", "5", "6", "7", "8", "9">>
WideDigitChars ==
    <<"w0", "w1", "w2", "w3", "w4", "w5", "w6", "w7", "w8", "w9">>
PlainKanjiChars ==
    <<"k0", "k1", "k2", "k3", "k4", "k5", "k6", "k7", "k8", "k9">>

\* The echo of a consumed character: the plain-Kanji digit of an ASCII or
\* full-width digit, the character itself otherwise.
EchoedAs(c) ==
    IF \E d \in 1..10 : AsciiDigitChars[d] = c \/ WideDigitChars[d] = c
    THEN PlainKanjiChars[CHOOSE d \in 1..10 :
                             AsciiDigitChars[d] = c \/ WideDigitChars[d] = c]
    ELSE c

\* C27: on return the Kanji echo has one glyph per collected token, in
\* input order: the plain-Kanji digit for a consumed ASCII or full-width
\* digit, the character itself for a consumed Kanji numeral; it covers the
\* consumed characters only, no character of the unconsumed suffix.
C27_KanjiEcho ==
    op \in Normalizers =>
        /\ Len(kanji_output) = Len(numbers)
        /\ Len(kanji_output) = NumeralPrefixLen(input)
        /\ \A i \in 1..Len(kanji_output) :
               /\ kanji_output[i] = EchoedAs(input[i])
               /\ numbers[i] = NumeralValue(input[i])

\* C27 witness: a full-width zero and a Kanji five before a suffix have
\* been echoed as the plain-Kanji zero and five.
C27_EchoBeforeSuffixReached ==
    /\ op = "NormalizeNumbersWithSuffix"
    /\ input = <<"w0", "k5", "x">>
    /\ kanji_output = <<"k0", "k5">>
    /\ suffix = <<"x">>

(***************************************************************************)
(* C28, C29: reads of the glyph tables and of the integer part             *)
(***************************************************************************)

TableConverters ==
    {"ArabicToKanji", "ArabicToSeparatedArabic", "ArabicToWideArabic",
     "ArabicToOtherForms"}

\* What a result holds when a nullptr slot or a slot outside a table was
\* appended to it.
BadSlots == {Null} \cup {OutOfTable[i] : i \in 1..Len(OutOfTable)}

\* C28: in every forward converter, for every input, each lookup into a
\* digit, rank, Roman or circled table uses an index within the table, and
\* no nullptr slot is appended to a result (the Daiji digit slot 0, the
\* ones-rank slot 0 and a bigger-rank index >= 5 are never read).
C28_GlyphTableSafety ==
    op \in TableConverters =>
        \A i \in 1..Len(output) : \A j \in 1..Len(output[i].value) :
            output[i].value[j] \notin BadSlots

\* C28 witness: a number of 20 digits with zeros has been converted, its
\* Daiji result using the last bigger rank (index 4).
C28_LastBiggerRankReached ==
    /\ op = "ArabicToKanji"
    /\ input = <<"1">> \o Repeat(19, "0")
    /\ ret
    /\ \E i \in 1..Len(output) :
           /\ output[i].style = "NUMBER_OLD_KANJI"
           /\ output[i].value = <<"o1", "osen", "kei">>

\* C29: for every input IsDecimalNumber accepts, the integer part is not
\* empty when ArabicToSeparatedArabic reads its first character (line 353):
\* the function never reads index 0 of an empty integer part.
C29_IntegerPartNonEmpty ==
    (op \in {"ArabicToSeparatedArabic", "abort"} /\ IsDecimalNumber(input))
        => (input # <<>> /\ input[1] # "." /\ ~oob)

\* The read of line 353 is in bounds exactly when the input starts with a
\* digit.
IntegerPartReadInBounds ==
    (op \in {"ArabicToSeparatedArabic", "abort"} /\ IsDecimalNumber(input))
        => (oob <=> (input = <<>> \/ input[1] = "."))

\* A step of the do-while loop of InterpretNumbersInJapaneseWay that
\* reaches line 809 and goes round again.
RankLoopContinues ==
    op = "InterpretNumbersInJapaneseWay" /\ op' = op

\* The iteration consumed a non-empty block and one multiplier.
ConsumesBlockAndMultiplier ==
    RankLoopContinues
        => (cursor' >= cursor + 2 /\ At(numbers, cursor' - 1) # OutOfTable
            /\ ~NatLess(At(numbers, cursor' - 1), U64(10000)))

\* The iterator of the running loop does not move backwards.
CursorMovesForward ==
    /\ op = "InterpretNumbersInJapaneseWay" => cursor' >= cursor
    /\ (op = "tokenizer" /\ op' = op) => cursor' >= cursor

\* The iterator stays within the sequence its loop walks, and the loop has
\* made no more iterations than the sequence has elements.
CursorWithinSequence ==
    /\ op = "tokenizer" => (cursor' <= Len(input) /\ iterations' <= Len(input))
    /\ op = "InterpretNumbersInJapaneseWay"
           => (cursor' <= Len(numbers) /\ iterations' <= Len(numbers))

\* C30: the tokenizer loop and the reducer terminate for every input, so
\* NormalizeNumbersInternal returns; every iteration of the rank-mode loop
\* that does not return consumes a non-empty block and one multiplier; the
\* cursor never moves backwards and never passes the end of the sequence,
\* and a loop makes at most as many iterations as there are tokens.
C30_Termination ==
    /\ <>(op = "NormalizeNumbersInternal")
    /\ [][ConsumesBlockAndMultiplier]_vars
    /\ [][CursorMovesForward]_vars
    /\ [][CursorWithinSequence]_vars

\* The rank-mode loop went round once and returned true from its second
\* iteration, at the end of a sequence of three tokens.
C30_SecondIterationReturned ==
    /\ op = "NormalizeNumbersInternal"
    /\ ret
    /\ Len(numbers) = 3
    /\ iterations = 2
    /\ cursor = 3

====
